---- MODULE Spec2Model ----
(***************************************************************************)
(* MeetMogger-AI: the transcript pipeline (validate_transcript,            *)
(* TranscriptProcessor.process, SentimentAnalyzer.analyze,                 *)
(* InsightExtractor.extract_insights) as a state machine.                  *)
(*                                                                         *)
(* A Python str is a TLA+ string; a character is a string of length 1.     *)
(* Scores (polarity, confidence) are integers in units of 1/Scale.         *)
(***************************************************************************)
EXTENDS Integers, Sequences, FiniteSets, TLC

VARIABLES
    input,          \* the value the caller passes to the entry points
    use_vader,      \* SentimentAnalyzer.use_vader
    use_textblob,   \* SentimentAnalyzer.use_textblob
    lib,            \* what VADER / TextBlob answer for the sentences of input
    patterns,       \* InsightExtractor.patterns
    stop_words,     \* InsightExtractor.stop_words
    lexicon,        \* SentimentAnalyzer.{positive,negative,intensity}_words
    procRes,        \* outcome of the last TranscriptProcessor.process(input)
    sentRes,        \* outcome of the last SentimentAnalyzer.analyze(input)
    insRes,         \* outcome of the last InsightExtractor.extract_insights(input)
    insLocal,       \* extract_insights' local insights_by_type when the call ended
    insFound        \* per type, the candidates before _deduplicate_insights

vars == <<input, use_vader, use_textblob, lib, patterns, stop_words, lexicon,
          procRes, sentRes, insRes, insLocal, insFound>>

----------------------------------------------------------------------------
(* Characters and the str methods / re calls the code uses.                *)

UpperSeq == <<"A","B","C","D","E","F","G","H","I","J","K","L","M",
              "N","O","P","Q","R","S","T","U","V","W","X","Y","Z">>
LowerSeq == <<"a","b","c","d","e","f","g","h","i","j","k","l","m",
              "n","o","p","q","r","s","t","u","v","w","x","y","z">>
UpperSet == {UpperSeq[i] : i \in 1..Len(UpperSeq)}
LowerSet == {LowerSeq[i] : i \in 1..Len(LowerSeq)}
DigitSet == {"0","1","2","3","4","5","6","7","8","9"}
\* \s
SpaceSet == {" ", "\n", "\t", "\r"}
\* [a-zA-Z]
AlphaSet == UpperSet \cup LowerSet
\* \w
WordSet == AlphaSet \cup DigitSet \cup {"_"}
\* [.!?]
TermSet == {".", "!", "?"}

LowerTab == [c \in UpperSet |-> LowerSeq[CHOOSE i \in 1..Len(UpperSeq) : UpperSeq[i] = c]]

Min(a, b) == IF a <= b THEN a ELSE b
Max(a, b) == IF a >= b THEN a ELSE b
Abs(a) == IF a < 0 THEN -a ELSE a

\* s[i] (1-based)
At(s, i) == SubSeq(s, i, i)

\* str.lower(), by halves
RECURSIVE StrLower(_)
StrLower(s) ==
    IF Len(s) = 0 THEN ""
    ELSE IF Len(s) = 1 THEN (IF s \in UpperSet THEN LowerTab[s] ELSE s)
    ELSE LET h == Len(s) \div 2
         IN  StrLower(SubSeq(s, 1, h)) \o StrLower(SubSeq(s, h + 1, Len(s)))

\* the least element of a non-empty set of integers
Least(set) == CHOOSE a \in set : \A b \in set : a <= b

\* the least index >= i of a character of s outside cs (Len(s)+1 if none)
SkipIn(s, i, cs) ==
    IF i > Len(s) THEN i
    ELSE CHOOSE j \in i..(Len(s) + 1) :
            /\ j > Len(s) \/ At(s, j) \notin cs
            /\ \A k \in i..(j - 1) : At(s, k) \in cs

\* the least index >= i of a character of s inside cs (Len(s)+1 if none)
SkipTo(s, i, cs) ==
    IF i > Len(s) THEN i
    ELSE CHOOSE j \in i..(Len(s) + 1) :
            /\ j > Len(s) \/ At(s, j) \in cs
            /\ \A k \in i..(j - 1) : At(s, k) \notin cs

\* the greatest index <= i of a character of s outside cs (0 if none)
SkipBack(s, i, cs) ==
    IF i < 1 THEN i
    ELSE CHOOSE j \in 0..i :
            /\ j < 1 \/ At(s, j) \notin cs
            /\ \A k \in (j + 1)..i : At(s, k) \in cs

\* str.strip()
StrStrip(s) ==
    LET a == SkipIn(s, 1, SpaceSet)
        b == SkipBack(s, Len(s), SpaceSet)
    IN  IF a > b THEN "" ELSE SubSeq(s, a, b)

\* hay.startswith(needle, i-1)
StartsAt(hay, i, needle) ==
    /\ i + Len(needle) - 1 <= Len(hay)
    /\ SubSeq(hay, i, i + Len(needle) - 1) = needle

\* the indices at which needle occurs in hay
Occurrences(hay, needle) ==
    {i \in 1..(Len(hay) - Len(needle) + 1) : SubSeq(hay, i, i + Len(needle) - 1) = needle}

\* str.find, 1-based; 0 when absent (Python's -1)
StrFind(hay, needle) ==
    LET found == Occurrences(hay, needle)
    IN  IF found = {} THEN 0 ELSE Least(found)

\* needle in hay
StrContains(hay, needle) ==
    \E i \in 1..(Len(hay) - Len(needle) + 1) : SubSeq(hay, i, i + Len(needle) - 1) = needle

\* "".join(seq[a..b]), by halves
RECURSIVE ConcatRange(_, _, _)
ConcatRange(seq, a, b) ==
    IF a > b THEN ""
    ELSE IF a = b THEN seq[a]
    ELSE LET m == (a + b) \div 2
         IN  ConcatRange(seq, a, m) \o ConcatRange(seq, m + 1, b)

\* "".join(seq)
Concat(seq) == ConcatRange(seq, 1, Len(seq))

\* the lists seq[a..b] one after the other, by halves
RECURSIVE FlattenRange(_, _, _)
FlattenRange(seq, a, b) ==
    IF a > b THEN <<>>
    ELSE IF a = b THEN seq[a]
    ELSE LET m == (a + b) \div 2
         IN  FlattenRange(seq, a, m) \o FlattenRange(seq, m + 1, b)

Flatten(seq) == FlattenRange(seq, 1, Len(seq))

\* sum(seq[a..b]), by halves
RECURSIVE SumRange(_, _, _)
SumRange(seq, a, b) ==
    IF a > b THEN 0
    ELSE IF a = b THEN seq[a]
    ELSE LET m == (a + b) \div 2
         IN  SumRange(seq, a, m) + SumRange(seq, m + 1, b)

\* sum(seq)
SumSeq(seq) == SumRange(seq, 1, Len(seq))

\* the indices 1..n that satisfy Test, in order
Indices(n, Test(_)) == SelectSeq([i \in 1..n |-> i], Test)

\* re.sub(r'\s+', ' ', s): a run of whitespace leaves one space
CollapseSpaces(s) ==
    Concat([i \in 1..Len(s) |->
               IF At(s, i) \notin SpaceSet THEN At(s, i)
               ELSE IF i > 1 /\ At(s, i - 1) \in SpaceSet THEN ""
               ELSE " "])

\* str.split(): the maximal runs of non-whitespace characters
StrSplit(s) ==
    LET starts == Indices(Len(s), LAMBDA i :
                      At(s, i) \notin SpaceSet /\ (i = 1 \/ At(s, i - 1) \in SpaceSet))
    IN  [k \in 1..Len(starts) |-> SubSeq(s, starts[k], SkipTo(s, starts[k], SpaceSet) - 1)]

\* str.split(ch) / re.split(r'[.!?]+', s) for cs = [.!?]: the pieces between
\* the maximal runs of separators when runs is TRUE, between the separators
\* when it is FALSE
SplitOn(s, cs, runs) ==
    LET starts == Indices(Len(s) + 1, LAMBDA i :
                      \/ i = 1
                      \/ /\ At(s, i - 1) \in cs
                         /\ (~runs \/ i > Len(s) \/ At(s, i) \notin cs))
    IN  [k \in 1..Len(starts) |-> SubSeq(s, starts[k], SkipTo(s, starts[k], cs) - 1)]

\* re.split(r'[.!?]+', s)
SplitSentences(s) == SplitOn(s, TermSet, TRUE)

\* " ".join(seq)
StrJoin(seq) == Concat([i \in 1..Len(seq) |-> IF i = 1 THEN seq[i] ELSE " " \o seq[i]])

\* re.search(r'[a-zA-Z]', s)
HasAlpha(s) == SkipTo(s, 1, AlphaSet) <= Len(s)

----------------------------------------------------------------------------
(* Python values an entry point may be handed.  t is type(x).__name__; s is *)
(* the content of a str; e is <<v>> when a dict has an entry "text" -> v.   *)

PyNone == [t |-> "NoneType", s |-> "", e |-> <<>>]
PyInt == [t |-> "int", s |-> "", e |-> <<>>]
PyList == [t |-> "list", s |-> "", e |-> <<>>]
PyStr(s) == [t |-> "str", s |-> s, e |-> <<>>]
PyDict(e) == [t |-> "dict", s |-> "", e |-> e]

\* len(cleaned) bounds of the two length warnings
ShortTranscript == 10
LongTranscript == 50000

\* validators.validate_transcript
validate_transcript(x) ==
    LET result == [raised |-> FALSE, is_valid |-> FALSE, transcript |-> "",
                   error |-> PyNone, warnings |-> <<>>]
        unwrap == x.t = "dict" /\ x.e # <<>>
        transcript == IF unwrap THEN x.e[1] ELSE x
    IN  IF x.t = "NoneType"
        THEN [result EXCEPT !.error = PyStr("Transcript cannot be None")]
        ELSE IF x.t # "str" /\ ~unwrap
        THEN [result EXCEPT !.error =
                  PyStr("Transcript must be a string, received " \o x.t)]
        ELSE IF transcript.t # "str"
        THEN \* transcript.strip() on a value that has no strip
             [result EXCEPT !.raised = TRUE,
                            !.error = PyStr("AttributeError: '" \o transcript.t
                                            \o "' object has no attribute 'strip'")]
        ELSE
        LET cleaned == StrStrip(transcript.s)
            w1 == IF Len(cleaned) < ShortTranscript
                  THEN <<"Transcript is very short (less than 10 characters)">>
                  ELSE <<>>
            w2 == IF Len(cleaned) > LongTranscript
                  THEN <<"Transcript is very long (over 50,000 characters)">>
                  ELSE <<>>
            w3 == IF Len(SplitSentences(cleaned)) < 2
                  THEN <<"Transcript appears to have no sentence breaks">>
                  ELSE <<>>
        IN  IF cleaned = ""
            THEN [result EXCEPT !.error = PyStr("Transcript is empty")]
            ELSE IF ~HasAlpha(cleaned)
            THEN [result EXCEPT !.error =
                      PyStr("Transcript contains no alphabetic characters"),
                                !.warnings = w1 \o w2]
            ELSE [result EXCEPT !.is_valid = TRUE, !.transcript = cleaned,
                                !.warnings = w1 \o w2 \o w3]

----------------------------------------------------------------------------
(* InsightExtractor                                                        *)

\* class InsightType(Enum): the members' values, in definition order
InsightType == <<"problem", "solution", "action_item", "opportunity", "risk", "decision">>

\* InsightExtractor._initialize_patterns; a pattern
\* (?:a1|a2|...)[\s\w\',-]*[.!?] is kept as its alternatives <<a1, a2, ...>>
InitialPatterns ==
    "problem" :> [
        patterns |-> <<
            <<"problem", "issue", "challenge", "concern", "difficult", "trouble", "obstacle", "barrier", "pain point">>,
            <<"struggling", "facing", "dealing with", "having trouble with">>,
            <<"not working", "broken", "failed", "unsuccessful">>,
            <<"need to fix", "need to resolve", "need to address">>,
            <<"concerned about", "worried about", "anxious about">> >>,
        keywords |-> <<"problem", "issue", "challenge", "concern", "difficult", "trouble", "struggling", "broken", "failed">>,
        categories |-> <<"technical", "business", "process", "resource", "timeline">> ] @@
    "solution" :> [
        patterns |-> <<
            <<"solution", "resolve", "fix", "address", "recommend", "suggest", "propose", "implement">>,
            <<"we can", "we should", "we need to", "let's", "how about">>,
            <<"best practice", "approach", "method", "strategy">>,
            <<"workaround", "alternative", "option">>,
            <<"upgrade", "improve", "enhance", "optimize">> >>,
        keywords |-> <<"solution", "resolve", "fix", "address", "recommend", "suggest", "implement", "approach", "strategy">>,
        categories |-> <<"technical", "process", "training", "resource", "timeline">> ] @@
    "action_item" :> [
        patterns |-> <<
            <<"action item", "next step", "todo", "task", "follow up", "follow-up">>,
            <<"we need to", "we should", "we will", "we'll", "let's">>,
            <<"schedule", "plan", "arrange", "coordinate">>,
            <<"deadline", "due date", "timeline", "schedule">>,
            <<"assign", "delegate", "responsible", "owner">> >>,
        keywords |-> <<"action", "next", "step", "todo", "task", "follow", "schedule", "deadline", "assign", "responsible">>,
        categories |-> <<"immediate", "short_term", "long_term", "ongoing">> ] @@
    "opportunity" :> [
        patterns |-> <<
            <<"opportunity", "potential", "possibility", "chance", "prospect">>,
            <<"could", "might", "may", "if we">>,
            <<"upsell", "cross-sell", "expand", "grow", "scale">>,
            <<"partnership", "collaboration", "joint", "together">>,
            <<"market", "customer", "client", "account">> >>,
        keywords |-> <<"opportunity", "potential", "possibility", "chance", "upsell", "expand", "partnership", "market">>,
        categories |-> <<"sales", "partnership", "expansion", "market", "product">> ] @@
    "risk" :> [
        patterns |-> <<
            <<"risk", "threat", "danger", "concern", "worry">>,
            <<"if not", "unless", "otherwise", "or else">>,
            <<"budget", "cost", "expense", "financial">>,
            <<"timeline", "schedule", "deadline", "delay">>,
            <<"competition", "competitor", "market">> >>,
        keywords |-> <<"risk", "threat", "danger", "concern", "worry", "budget", "cost", "timeline", "competition">>,
        categories |-> <<"financial", "timeline", "competitive", "technical", "operational">> ] @@
    "decision" :> [
        patterns |-> <<
            <<"decide", "decision", "choose", "select", "pick">>,
            <<"agree", "disagree", "approve", "reject">>,
            <<"final", "conclude", "determine", "resolve">>,
            <<"yes", "no", "maybe", "perhaps", "possibly">>,
            <<"go with", "proceed with", "move forward">> >>,
        keywords |-> <<"decide", "decision", "choose", "select", "agree", "approve", "final", "conclude", "yes", "no">>,
        categories |-> <<"approval", "selection", "direction", "commitment", "rejection">> ]

\* InsightExtractor._initialize_stop_words
InitialStopWords ==
    {"the", "a", "an", "and", "or", "but", "in", "on", "at", "to", "for", "of", "with", "by",
     "is", "are", "was", "were", "be", "been", "being", "have", "has", "had", "do", "does", "did",
     "will", "would", "could", "should", "may", "might", "must", "can", "this", "that", "these", "those"}

\* [\s\w\',-]
InsightClass == SpaceSet \cup WordSet \cup {"'", ",", "-"}

\* One attempt of (?:a1|...)[\s\w\',-]*[.!?] at index p of the lower-cased
\* text lt, alternatives tried in order from the k-th: the index of the
\* terminator that ends the match, 0 when no alternative leads to a match.
RECURSIVE MatchEnd(_, _, _, _)
MatchEnd(alts, lt, p, k) ==
    IF k > Len(alts) THEN 0
    ELSE IF StartsAt(lt, p, alts[k])
         THEN LET q == SkipIn(lt, p + Len(alts[k]), InsightClass)
              IN  IF q <= Len(lt) /\ At(lt, q) \in TermSet THEN q
                  ELSE MatchEnd(alts, lt, p, k + 1)
         ELSE MatchEnd(alts, lt, p, k + 1)

\* the indices of lt at which the pattern matches: an alternative can only
\* start where its first character stands
MatchStarts(alts, lt) ==
    LET heads == {At(alts[k], 1) : k \in 1..Len(alts)}
    IN  {p \in 1..Len(lt) : At(lt, p) \in heads /\ MatchEnd(alts, lt, p, 1) > 0}

\* re.findall(pattern, text, re.IGNORECASE | re.MULTILINE): the leftmost
\* non-overlapping matches, scanning from index p
RECURSIVE FindAllFrom(_, _, _, _, _)
FindAllFrom(alts, text, lt, starts, p) ==
    LET live == {a \in starts : a >= p}
    IN  IF live = {} THEN <<>>
        ELSE LET a == Least(live)
                 q == MatchEnd(alts, lt, a, 1)
             IN  <<SubSeq(text, a, q)>> \o FindAllFrom(alts, text, lt, starts, q + 1)

FindAllIn(alts, text, lt) == FindAllFrom(alts, text, lt, MatchStarts(alts, lt), 1)

FindAll(alts, text) == FindAllIn(alts, text, StrLower(text))

\* prefixes_to_remove of _clean_insight_text: ^(?:a1|a2|...)\s*
PrefixesToRemove ==
    << <<"so", "well", "okay", "ok", "alright", "right", "yes", "no", "sure",
         "absolutely", "definitely">>,
       <<"i think", "i believe", "i feel", "i guess", "i suppose">>,
       <<"we need to", "we should", "we can", "we will", "we'll">> >>

\* re.sub(r'^(?:a1|...)\s*', '', s, flags=re.IGNORECASE): the first
\* alternative s starts with, ignoring case, goes, and the whitespace after it
RemovePrefix(alts, s) ==
    LET sl == StrLower(s)
        found == {k \in 1..Len(alts) : StartsAt(sl, 1, alts[k])}
    IN  IF found = {} THEN s
        ELSE SubSeq(s, SkipIn(s, Len(alts[Least(found)]) + 1, SpaceSet), Len(s))

RECURSIVE RemovePrefixes(_, _)
RemovePrefixes(s, n) ==
    IF n > Len(PrefixesToRemove) THEN s
    ELSE RemovePrefixes(RemovePrefix(PrefixesToRemove[n], s), n + 1)

\* a faulty variant of _clean_insight_text: the last list of prefixes is not
\* applied
CleanInsightTextTwoLists(text) ==
    StrStrip(RemovePrefix(PrefixesToRemove[2],
                          RemovePrefix(PrefixesToRemove[1], CollapseSpaces(StrStrip(text)))))

\* InsightExtractor._clean_insight_text
CleanInsightText(text) ==
    StrStrip(RemovePrefixes(CollapseSpaces(StrStrip(text)), 1))

\* InsightExtractor._is_valid_insight thresholds
MinInsightLen == 10
MinInsightWords == 3
\* stop_word_count / len(words) > 0.7, as stop_word_count * 10 > StopTenths * len(words)
StopTenths == 7

CountIn(seq, set) == Cardinality({i \in 1..Len(seq) : StrLower(seq[i]) \in set})

\* a faulty variant of _is_valid_insight: the number of words is not checked
IsValidInsightAnyWords(text, stops) ==
    LET words == StrSplit(text)
    IN  /\ Len(text) >= MinInsightLen
        /\ ~(CountIn(words, stops) * 10 > StopTenths * Len(words))

\* InsightExtractor._is_valid_insight
IsValidInsight(text, stops) ==
    LET words == StrSplit(text)
    IN  /\ Len(text) >= MinInsightLen
        /\ Len(words) >= MinInsightWords
        /\ ~(CountIn(words, stops) * 10 > StopTenths * Len(words))

\* confidence is counted in thousandths
ConfUnit == 1000
KeywordStep == 200
KeywordCap == 600
LongWords == 10
LongBoost == 200
MidWords == 5
MidBoost == 100
ActionStep == 100
ActionCap == 200

\* action_words of _calculate_insight_confidence
ActionWords == <<"will", "should", "need", "must", "can", "could">>

\* sum(1 for w in seq if w in text_lower)
CountFound(seq, text_lower) ==
    Cardinality({i \in 1..Len(seq) : StrContains(text_lower, seq[i])})

\* a faulty variant of the terms of _calculate_insight_confidence: the smaller
\* boost is given from five words on
ConfidenceTermsFromFive(text, cfg) ==
    LET text_lower == StrLower(text)
        keyword_matches == CountFound(cfg.keywords, text_lower)
        word_count == Len(StrSplit(text))
        action_matches == CountFound(ActionWords, text_lower)
    IN  << Min(keyword_matches * KeywordStep, KeywordCap),
           IF word_count > LongWords THEN LongBoost
           ELSE IF word_count >= MidWords THEN MidBoost ELSE 0,
           Min(action_matches * ActionStep, ActionCap) >>

\* the three terms of _calculate_insight_confidence, in thousandths:
\* <<keyword term, length boost, action term>>
ConfidenceTerms(text, cfg) ==
    LET text_lower == StrLower(text)
        keyword_matches == CountFound(cfg.keywords, text_lower)
        word_count == Len(StrSplit(text))
        action_matches == CountFound(ActionWords, text_lower)
    IN  << Min(keyword_matches * KeywordStep, KeywordCap),
           IF word_count > LongWords THEN LongBoost
           ELSE IF word_count > MidWords THEN MidBoost ELSE 0,
           Min(action_matches * ActionStep, ActionCap) >>

\* min(confidence, 1.0) of the sum of the terms
CappedSum(terms) == Min(terms[1] + terms[2] + terms[3], ConfUnit)

\* InsightExtractor._calculate_insight_confidence, in thousandths
CalculateInsightConfidence(text, cfg) == CappedSum(ConfidenceTerms(text, cfg))

\* The float sums of _calculate_insight_confidence are not always the nearest
\* double of the decimal they stand for: the sign of (float sum - decimal), by
\* <<keyword term, length boost, action term>> (IEEE-754 double arithmetic).
FloatAbove == {<<0, 100, 200>>, <<0, 200, 100>>, <<200, 0, 100>>, <<200, 100, 0>>,
               <<200, 200, 200>>, <<400, 0, 200>>, <<400, 200, 0>>, <<400, 200, 100>>}
FloatBelow == {<<600, 100, 100>>, <<600, 100, 200>>}

TermsUlp(terms) ==
    IF terms \in FloatAbove THEN 1 ELSE IF terms \in FloatBelow THEN -1 ELSE 0

ConfidenceUlp(text, cfg) == TermsUlp(ConfidenceTerms(text, cfg))

\* InsightExtractor._extract_keywords
ExtractKeywords(text, pattern_keywords) ==
    LET text_lower == StrLower(text)
    IN  SelectSeq(pattern_keywords, LAMBDA k : StrContains(text_lower, k))

\* category_keywords of _categorize_insight, in dict order
CategoryKeywords ==
    << [category |-> "technical",
        keywords |-> <<"technical", "system", "software", "hardware", "bug", "error", "code">>],
       [category |-> "business",
        keywords |-> <<"business", "revenue", "profit", "customer", "market", "sales">>],
       [category |-> "process",
        keywords |-> <<"process", "workflow", "procedure", "method", "approach">>],
       [category |-> "resource",
        keywords |-> <<"resource", "budget", "cost", "money", "funding", "staff", "team">>],
       [category |-> "timeline",
        keywords |-> <<"timeline", "schedule", "deadline", "date", "time", "urgent", "priority">>] >>

\* InsightExtractor._categorize_insight
CategorizeInsight(text, categories) ==
    LET text_lower == StrLower(text)
        hits == {i \in 1..Len(CategoryKeywords) :
                    CountFound(CategoryKeywords[i].keywords, text_lower) > 0}
    IN  IF hits # {}
        THEN CategoryKeywords[CHOOSE i \in hits : \A j \in hits : i <= j].category
        ELSE IF categories # <<>> THEN categories[1] ELSE "general"

\* high_priority_words of _determine_priority
HighPriorityWords == <<"urgent", "critical", "important", "asap", "immediately", "deadline">>
\* confidence > 0.5, in thousandths
MediumConfidence == 500

\* a faulty variant of _determine_priority: the rule for opportunities and
\* decisions is applied first
DeterminePriorityLowFirst(text, insight_type, confidence) ==
    IF insight_type \in {"opportunity", "decision"} THEN "low"
    ELSE IF CountFound(HighPriorityWords, StrLower(text)) > 0 THEN "high"
    ELSE IF insight_type \in {"action_item", "problem"} /\ confidence > MediumConfidence
    THEN "medium"
    ELSE "medium"

\* InsightExtractor._determine_priority
DeterminePriority(text, insight_type, confidence) ==
    IF CountFound(HighPriorityWords, StrLower(text)) > 0 THEN "high"
    ELSE IF insight_type \in {"action_item", "problem"} /\ confidence > MediumConfidence
    THEN "medium"
    ELSE IF insight_type \in {"opportunity", "decision"} THEN "low"
    ELSE "medium"

\* the least i >= k with text_lower in sentences[i].lower(); 0 when none
RECURSIVE SentenceWith(_, _, _)
SentenceWith(sentences, text_lower, k) ==
    IF k > Len(sentences) THEN 0
    ELSE IF StrContains(StrLower(sentences[k]), text_lower) THEN k
    ELSE SentenceWith(sentences, text_lower, k + 1)

\* _extract_context, given full_context.lower() and
\* re.split(r'[.!?]+', full_context)
ExtractContextIn(text, context_lower, sentences) ==
    LET text_lower == StrLower(text)
    IN  IF StrFind(context_lower, text_lower) = 0 THEN text
        ELSE LET i == SentenceWith(sentences, text_lower, 1)
             IN  IF i = 0 THEN ""
                 ELSE StrStrip(StrJoin(SubSeq(sentences, Max(1, i - 1),
                                              Min(Len(sentences), i + 1))))

\* InsightExtractor._extract_context
ExtractContext(text, full_context) ==
    ExtractContextIn(text, StrLower(full_context), SplitSentences(full_context))

\* what the calls of one _extract_insights_by_type compute from its text
\* again and again: text.lower() and re.split(r'[.!?]+', text)
Scanned(text) == [text |-> text, lower |-> StrLower(text), sentences |-> SplitSentences(text)]

\* InsightExtractor._create_insight; ulp is the float error of confidence
CreateInsight(text, insight_type, cfg, context) ==
    LET terms == ConfidenceTerms(text, cfg)
        confidence == CappedSum(terms)
    IN  [text |-> text,
         type |-> insight_type,
         confidence |-> confidence,
         ulp |-> TermsUlp(terms),
         category |-> CategorizeInsight(text, cfg.categories),
         keywords |-> ExtractKeywords(text, cfg.keywords),
         context |-> ExtractContextIn(text, context.lower, context.sentences),
         priority |-> DeterminePriority(text, insight_type, confidence)]

\* the body of the inner loop of _extract_insights_by_type over the matches
RECURSIVE InsightsOfMatches(_, _, _, _, _)
InsightsOfMatches(matches, insight_type, cfg, stops, context) ==
    IF matches = <<>> THEN <<>>
    ELSE LET cleaned_match == CleanInsightText(Head(matches))
             rest == InsightsOfMatches(Tail(matches), insight_type, cfg, stops, context)
         IN  IF IsValidInsight(cleaned_match, stops)
             THEN <<CreateInsight(cleaned_match, insight_type, cfg, context)>> \o rest
             ELSE rest

\* the outer loop of _extract_insights_by_type over the patterns, from the n-th
RECURSIVE InsightsOfPatterns(_, _, _, _, _)
InsightsOfPatterns(n, insight_type, cfg, stops, context) ==
    IF n > Len(cfg.patterns) THEN <<>>
    ELSE InsightsOfMatches(FindAllIn(cfg.patterns[n], context.text, context.lower),
                           insight_type, cfg, stops, context)
         \o InsightsOfPatterns(n + 1, insight_type, cfg, stops, context)

\* a faulty variant of _deduplicate_insights: texts compared as they are, not
\* lower-cased
DeduplicateExact(insights) ==
    LET kept == Indices(Len(insights),
                        LAMBDA i : \A j \in 1..(i - 1) : insights[j].text # insights[i].text)
    IN  [k \in 1..Len(kept) |-> insights[kept[k]]]

\* InsightExtractor._deduplicate_insights: an insight is kept unless the
\* lower-cased text of an earlier one is the same
DeduplicateInsights(insights) ==
    LET lowered == [i \in 1..Len(insights) |-> StrLower(insights[i].text)]
        kept == Indices(Len(insights), LAMBDA i : \A j \in 1..(i - 1) : lowered[j] # lowered[i])
    IN  [k \in 1..Len(kept) |-> insights[kept[k]]]

\* the float order of two confidences
ConfLess(a, b) ==
    a.confidence < b.confidence \/ (a.confidence = b.confidence /\ a.ulp < b.ulp)

\* a faulty variant of the sort: descending, but equal ones in reverse order
SortByConfidenceReversed(seq) ==
    LET n == Len(seq)
        before(i) == Cardinality({j \in 1..n : \/ ConfLess(seq[i], seq[j])
                                               \/ (j > i /\ ~ConfLess(seq[j], seq[i]))})
        place == [i \in 1..n |-> before(i) + 1]
    IN  [k \in 1..n |-> seq[CHOOSE i \in 1..n : place[i] = k]]

\* sorted(seq, key=lambda x: x.confidence, reverse=True): stable, descending;
\* seq[i] comes after the greater ones and the earlier equal ones
SortByConfidence(seq) ==
    LET n == Len(seq)
        before(i) == Cardinality({j \in 1..n : \/ ConfLess(seq[i], seq[j])
                                               \/ (j < i /\ ~ConfLess(seq[j], seq[i]))})
        place == [i \in 1..n |-> before(i) + 1]
    IN  [k \in 1..n |-> seq[CHOOSE i \in 1..n : place[i] = k]]

\* the list "insights" of _extract_insights_by_type when its loops end
FoundInsights(context, insight_type, pats, stops) ==
    InsightsOfPatterns(1, insight_type, pats[insight_type], stops, context)

\* the last two lines of _extract_insights_by_type
UniqueSorted(insights) == SortByConfidence(DeduplicateInsights(insights))

\* InsightExtractor._extract_insights_by_type
ExtractInsightsIn(context, insight_type, pats, stops) ==
    UniqueSorted(FoundInsights(context, insight_type, pats, stops))

ExtractInsightsByType(text, insight_type, pats, stops) ==
    ExtractInsightsIn(Scanned(text), insight_type, pats, stops)

\* A dict is the sequence of its items [k |-> key, v |-> value] in insertion
\* order.  The member of InsightType with value v, and the str v as a dict key:
EnumMember(v) == [t |-> "InsightType", s |-> v, e |-> <<>>]

\* the loop "for insight_type in InsightType" of extract_insights, from the
\* n-th member: the list "insights" inside each call of
\* _extract_insights_by_type
RECURSIVE FoundByType(_, _, _, _)
FoundByType(n, context, pats, stops) ==
    IF n > Len(InsightType) THEN <<>>
    ELSE <<FoundInsights(context, InsightType[n], pats, stops)>>
         \o FoundByType(n + 1, context, pats, stops)

\* insights_by_type[insight_type.value] = insights, from the n-th member
RECURSIVE InsightsByType(_, _)
InsightsByType(n, found) ==
    IF n > Len(InsightType) THEN <<>>
    ELSE <<[k |-> PyStr(EnumMember(InsightType[n]).s), v |-> UniqueSorted(found[n])]>>
         \o InsightsByType(n + 1, found)

\* insights_by_type[key]
Lookup(dict, key) ==
    LET hits == {i \in 1..Len(dict) : dict[i].k = PyStr(key)}
    IN  dict[CHOOSE i \in hits : TRUE].v

\* all_insights: the per-type lists one after the other
AllInsights(dict) == Flatten([i \in 1..Len(dict) |-> dict[i].v])

Texts(insights) == [i \in 1..Len(insights) |-> insights[i].text]

SumConfidence(insights) == SumSeq([i \in 1..Len(insights) |-> insights[i].confidence])

\* round(num / den) to the nearest integer, halves to even
RoundDiv(num, den) ==
    LET q == num \div den
        r == num % den
    IN  IF 2 * r > den \/ (2 * r = den /\ q % 2 = 1) THEN q + 1 ELSE q

\* a faulty variant of _calculate_extraction_confidence: the mean is cut
\* after the third decimal
CalculateExtractionConfidenceCut(insights) ==
    IF insights = <<>> THEN 0
    ELSE SumConfidence(insights) \div Len(insights)

\* InsightExtractor._calculate_extraction_confidence, in thousandths
CalculateExtractionConfidence(insights) ==
    IF insights = <<>> THEN 0
    ELSE RoundDiv(SumConfidence(insights), Len(insights))

\* obj.value: only an Enum member has the attribute
HasValue(obj) == obj.t = "InsightType"

\* the dict comprehension that builds "detailed_insights": its key expression
\* insight_type.value is evaluated on the keys of insights_by_type
DetailedInsights(dict) ==
    IF \E i \in 1..Len(dict) : ~HasValue(dict[i].k)
    THEN [raised |-> TRUE,
          error |-> "'" \o dict[CHOOSE i \in 1..Len(dict) :
                                   /\ ~HasValue(dict[i].k)
                                   /\ \A j \in 1..(i - 1) : HasValue(dict[j].k)].k.t
                    \o "' object has no attribute 'value'",
          v |-> <<>>]
    ELSE [raised |-> FALSE, error |-> "",
          v |-> [i \in 1..Len(dict) |->
                    [k |-> PyStr(dict[i].k.s),
                     v |-> [j \in 1..Len(dict[i].v) |->
                               [text |-> dict[i].v[j].text,
                                confidence |-> dict[i].v[j].confidence,
                                category |-> dict[i].v[j].category,
                                keywords |-> dict[i].v[j].keywords,
                                priority |-> dict[i].v[j].priority]]]]]

\* a faulty variant of _create_empty_result: the error is not recorded
EmptyInsightResultNoError(error) ==
    [problems |-> <<>>, solutions |-> <<>>, action_items |-> <<>>,
     opportunities |-> <<>>, risks |-> <<>>, decisions |-> <<>>,
     metadata |-> [total_insights |-> 0, insights_by_type |-> <<>>,
                   extraction_confidence |-> 0, high_priority_items |-> <<>>,
                   error |-> ""],
     detailed_insights |-> <<>>]

\* InsightExtractor._create_empty_result
CreateEmptyInsightResult(error) ==
    [problems |-> <<>>, solutions |-> <<>>, action_items |-> <<>>,
     opportunities |-> <<>>, risks |-> <<>>, decisions |-> <<>>,
     metadata |-> [total_insights |-> 0, insights_by_type |-> <<>>,
                   extraction_confidence |-> 0, high_priority_items |-> <<>>,
                   error |-> error],
     detailed_insights |-> <<>>]

\* a faulty variant of the list of high-priority items: a text is listed once
HighPriorityItemsOnce(all_insights) ==
    LET texts == Texts(SelectSeq(all_insights, LAMBDA i : i.priority = "high"))
        kept == Indices(Len(texts), LAMBDA i : \A j \in 1..(i - 1) : texts[j] # texts[i])
    IN  [k \in 1..Len(kept) |-> texts[kept[k]]]

\* [i.text for i in all_insights if i.priority == "high"]
HighPriorityItems(all_insights) ==
    Texts(SelectSeq(all_insights, LAMBDA i : i.priority = "high"))

\* the try block of extract_insights: [raised, error, v]
BuildInsightResult(dict) ==
    LET all_insights == AllInsights(dict)
        detailed == DetailedInsights(dict)
    IN  IF detailed.raised THEN [raised |-> TRUE, error |-> detailed.error, v |-> <<>>]
        ELSE [raised |-> FALSE, error |-> "",
              v |-> [problems |-> Texts(Lookup(dict, "problem")),
                     solutions |-> Texts(Lookup(dict, "solution")),
                     action_items |-> Texts(Lookup(dict, "action_item")),
                     opportunities |-> Texts(Lookup(dict, "opportunity")),
                     risks |-> Texts(Lookup(dict, "risk")),
                     decisions |-> Texts(Lookup(dict, "decision")),
                     metadata |->
                         [total_insights |-> Len(all_insights),
                          insights_by_type |->
                              [i \in 1..Len(dict) |-> [k |-> dict[i].k, v |-> Len(dict[i].v)]],
                          extraction_confidence |-> CalculateExtractionConfidence(all_insights),
                          high_priority_items |-> HighPriorityItems(all_insights)],
                     detailed_insights |-> detailed.v]]

\* The outcome of a call: [st |-> "returned", v |-> result] or
\* [st |-> "raised", v |-> the exception's text]; NotCalled before any call.
NotCalled == [st |-> "none", v |-> <<>>]
Returned(v) == [st |-> "returned", v |-> v]
Raised(e) == [st |-> "raised", v |-> e]

\* the return statements of extract_insights' try block and except clause:
\* out is the outcome, local the dict insights_by_type and found the
\* candidates of each type before _deduplicate_insights, as the call leaves
\* them
ExtractionOutcome(dict, found) ==
    LET built == BuildInsightResult(dict)
    IN  [out |-> IF built.raised
                 THEN Returned(CreateEmptyInsightResult("Extraction error: " \o built.error))
                 ELSE Returned(built.v),
         local |-> dict, found |-> found]

\* the try block of extract_insights on the candidates found
ExtractionOf(found) == ExtractionOutcome(InsightsByType(1, found), found)

\* InsightExtractor.extract_insights
extract_insights(x, pats, stops) ==
    LET validation == validate_transcript(x)
    IN  IF validation.raised
        THEN [out |-> Raised(validation.error.s), local |-> <<>>, found |-> <<>>]
        ELSE IF ~validation.is_valid
        THEN [out |-> Returned(CreateEmptyInsightResult(validation.error.s)),
              local |-> <<>>, found |-> <<>>]
        ELSE ExtractionOf(FoundByType(1, Scanned(validation.transcript), pats, stops))

----------------------------------------------------------------------------
(* SentimentAnalyzer.  A sub-score (VADER compound, TextBlob polarity) is   *)
(* an integer in hundredths, -SubUnit..SubUnit; a combined score and a      *)
(* confidence are in units of 1/Scale, with ulp the sign of the float's     *)
(* error where the float is not the nearest double of that decimal; a mean *)
(* is the fraction [num, den] of such units.                               *)

SubUnit == 100
Scale == 1000
\* combined_score = vader_compound * 0.7 + textblob_polarity * 0.3, in tenths
VaderWeight == 7
BlobWeight == 3
\* the label thresholds 0.05 / -0.05 in units of 1/Scale
LabelThreshold == 50
\* confidence >= 0.3
ImportantConfidence == 300
\* text[max(0, start-20):start]
IntensityWindow == 20

\* SentimentAnalyzer.__init__: the three word sets
InitialLexicon ==
    [positive_words |->
        {"good", "great", "excellent", "happy", "love", "wonderful", "amazing",
         "positive", "pleased", "satisfied", "fantastic", "nice", "awesome",
         "glad", "enjoy", "perfect", "outstanding", "brilliant", "superb",
         "delighted", "thrilled", "excited", "optimistic", "confident"},
     negative_words |->
        {"bad", "terrible", "awful", "sad", "hate", "horrible", "negative",
         "angry", "upset", "disappointed", "poor", "worse", "worst",
         "unhappy", "annoyed", "frustrated", "concerned", "worried"},
     intensity_words |->
        {"very", "extremely", "incredibly", "absolutely", "completely",
         "totally", "really", "quite", "rather", "somewhat", "slightly"}]

\* TextBlob(text).sentences (NLTK's sentence tokenizer, a library): a sentence
\* ends after a run of terminators that whitespace or the end of text follows
RECURSIVE SentenceEnd(_, _)
SentenceEnd(s, i) ==
    LET j == SkipTo(s, i, TermSet)
    IN  IF j > Len(s) THEN Len(s)
        ELSE LET k == SkipIn(s, j, TermSet)
             IN  IF k > Len(s) \/ At(s, k) \in SpaceSet THEN k - 1
                 ELSE SentenceEnd(s, k)

RECURSIVE BlobSentencesFrom(_, _)
BlobSentencesFrom(s, i) ==
    LET a == SkipIn(s, i, SpaceSet)
    IN  IF a > Len(s) THEN <<>>
        ELSE LET b == SentenceEnd(s, a)
             IN  <<SubSeq(s, a, b)>> \o BlobSentencesFrom(s, b + 1)

BlobSentences(text) == BlobSentencesFrom(text, 1)

\* len(s.split()) >= 3
MinSentenceWords == 3

\* SentimentAnalyzer._extract_sentences
AnalyzerSentences(text) ==
    LET sentences == BlobSentences(text)
    IN  SelectSeq([i \in 1..Len(sentences) |-> StrStrip(sentences[i])],
                  LAMBDA s : Len(StrSplit(s)) >= MinSentenceWords)

\* SentimentAnalyzer._get_word_intensity; start is 0-based as in the code
GetWordIntensity(text, start, lex) ==
    LET before_text == StrLower(SubSeq(text, Max(0, start - IntensityWindow) + 1, start))
    IN  IF \E w \in lex.intensity_words : StrContains(before_text, w)
        THEN "High" ELSE "Medium"

\* the matches of \bword\b for the words of a set: the maximal runs of \w
\* characters of text_lower that are a word of the set
WordMatches(text, text_lower, words, polarity) ==
    LET starts == {a \in 1..Len(text_lower) :
                      /\ At(text_lower, a) \in WordSet
                      /\ (a = 1 \/ At(text_lower, a - 1) \notin WordSet)
                      /\ SubSeq(text_lower, a, SkipIn(text_lower, a, WordSet) - 1) \in words}
    IN  {[word |-> SubSeq(text, a, SkipIn(text_lower, a, WordSet) - 1),
          polarity |-> polarity,
          start |-> a - 1,
          end |-> SkipIn(text_lower, a, WordSet) - 1] : a \in starts}

\* highlights.sort(key=lambda x: x["start"]) of the highlights appended for
\* the positive words, then for the negative words
RECURSIVE SortByStart(_, _)
SortByStart(pos, neg) ==
    IF pos \cup neg = {} THEN <<>>
    ELSE LET least == CHOOSE h \in pos \cup neg : \A g \in pos \cup neg : h.start <= g.start
             first == IF \E h \in pos : h.start = least.start
                      THEN CHOOSE h \in pos : h.start = least.start
                      ELSE least
         IN  <<first>> \o SortByStart(pos \ {first}, neg \ {first})

\* a faulty variant of _generate_highlights: the list is not sorted, the
\* highlights of the negative words come after those of the positive words
GenerateHighlightsUnsorted(text, lex) ==
    LET text_lower == StrLower(text)
        sorted == SortByStart(WordMatches(text, text_lower, lex.positive_words, "Positive"), {})
                      \o SortByStart({}, WordMatches(text, text_lower, lex.negative_words,
                                                     "Negative"))
    IN  [i \in 1..Len(sorted) |->
            [word |-> sorted[i].word, polarity |-> sorted[i].polarity,
             start |-> sorted[i].start, end |-> sorted[i].end,
             intensity |-> GetWordIntensity(text, sorted[i].start, lex)]]

\* SentimentAnalyzer._generate_highlights
GenerateHighlights(text, lex) ==
    LET text_lower == StrLower(text)
        sorted == SortByStart(WordMatches(text, text_lower, lex.positive_words, "Positive"),
                              WordMatches(text, text_lower, lex.negative_words, "Negative"))
    IN  [i \in 1..Len(sorted) |->
            [word |-> sorted[i].word, polarity |-> sorted[i].polarity,
             start |-> sorted[i].start, end |-> sorted[i].end,
             intensity |-> GetWordIntensity(text, sorted[i].start, lex)]]

\* SentimentAnalyzer._create_highlighted_text: the loop from the k-th highlight
RECURSIVE HighlightedFrom(_, _, _, _)
HighlightedFrom(text, highlights, k, last_end) ==
    IF k > Len(highlights) THEN SubSeq(text, last_end + 1, Len(text))
    ELSE IF highlights[k].start < last_end
    THEN HighlightedFrom(text, highlights, k + 1, last_end)
    ELSE SubSeq(text, last_end + 1, highlights[k].start)
         \o "**" \o highlights[k].word \o "**"
         \o HighlightedFrom(text, highlights, k + 1, highlights[k].end)

CreateHighlightedText(text, highlights) ==
    IF highlights = <<>> THEN text ELSE HighlightedFrom(text, highlights, 1, 0)

\* the cue words of is_important
ImportantWords == <<"action", "next", "follow", "deadline", "urgent">>

\* combined_score of _analyze_sentence, in units of 1/Scale
CombinedScore(vader_compound, textblob_polarity, uv, ut) ==
    IF uv /\ ut THEN vader_compound * VaderWeight + textblob_polarity * BlobWeight
    ELSE IF uv THEN vader_compound * (VaderWeight + BlobWeight)
    ELSE textblob_polarity * (VaderWeight + BlobWeight)

\* The float vader_compound * 0.7 + textblob_polarity * 0.3 is not always the
\* nearest double of the decimal it stands for: the sign of (float - decimal),
\* by <<vader_compound, textblob_polarity>> (IEEE-754 double arithmetic).
CombinedAbove == {<<-5, -5>>}
CombinedBelow == {<<5, 5>>}

CombinedUlp(vader_compound, textblob_polarity, uv, ut) ==
    IF ~(uv /\ ut) THEN 0
    ELSE IF <<vader_compound, textblob_polarity>> \in CombinedAbove THEN 1
    ELSE IF <<vader_compound, textblob_polarity>> \in CombinedBelow THEN -1
    ELSE 0

\* a faulty variant of the label: both thresholds exclusive
SentimentLabelStrict(num, den, ulp) ==
    IF num > LabelThreshold * den \/ (num = LabelThreshold * den /\ ulp > 0)
    THEN "Positive"
    ELSE IF num < -LabelThreshold * den \/ (num = -LabelThreshold * den /\ ulp < 0)
    THEN "Negative"
    ELSE "Neutral"

\* the sentiment label of a score: the float next to num/den (den > 0) in
\* units of 1/Scale on the side ulp tells
SentimentLabel(num, den, ulp) ==
    IF num > LabelThreshold * den \/ (num = LabelThreshold * den /\ ulp >= 0)
    THEN "Positive"
    ELSE IF num < -LabelThreshold * den \/ (num = -LabelThreshold * den /\ ulp <= 0)
    THEN "Negative"
    ELSE "Neutral"

\* a faulty variant of the confidence: the score itself, sign kept
SignedConfidence(combined_score) == combined_score

\* confidence = abs(combined_score)
SentenceConfidence(combined_score) == Abs(combined_score)

\* the float error of abs(combined_score)
AbsUlp(combined_score, ulp) == IF combined_score < 0 THEN -ulp ELSE ulp

\* SentimentAnalyzer._analyze_sentence.  ans is what the libraries do on this
\* sentence: [raises, vader, textblob]
AnalyzeSentence(sentence, ans, uv, ut, lex) ==
    LET result == [text |-> sentence, sentiment |-> "Neutral", polarity |-> 0,
                   ulp |-> 0, confidence |-> 0, highlights |-> <<>>,
                   highlighted_text |-> sentence, is_important |-> FALSE,
                   error |-> ""]
        vader_compound == IF uv THEN ans.vader ELSE 0
        textblob_polarity == IF ut THEN ans.textblob ELSE 0
        combined_score == CombinedScore(vader_compound, textblob_polarity, uv, ut)
        ulp == CombinedUlp(vader_compound, textblob_polarity, uv, ut)
        confidence == SentenceConfidence(combined_score)
        highlights == GenerateHighlights(sentence, lex)
        is_important ==
            \/ confidence > ImportantConfidence
            \/ (confidence = ImportantConfidence /\ AbsUlp(combined_score, ulp) >= 0)
            \/ Len(highlights) > 0
            \/ CountFound(ImportantWords, StrLower(sentence)) > 0
    IN  IF (uv /\ ans.raises = "vader") \/ (ut /\ ans.raises = "textblob")
        THEN [result EXCEPT !.error = ans.raises]
        ELSE [result EXCEPT !.sentiment = SentimentLabel(combined_score, 1, ulp),
                            !.polarity = combined_score,
                            !.ulp = ulp,
                            !.confidence = confidence,
                            !.highlights = highlights,
                            !.highlighted_text = CreateHighlightedText(sentence, highlights),
                            !.is_important = is_important]

Confidences(rs) == [i \in 1..Len(rs) |-> rs[i].confidence]
Polarities(rs) == [i \in 1..Len(rs) |-> rs[i].polarity]

\* a float 0.0 and a quotient num/den, as fractions of 1/Scale
Zero == [num |-> 0, den |-> 1]
Frac(num, den) == [num |-> num, den |-> den]

\* the float error of weighted_score / total_weight where it matters, at a
\* quotient that is a multiple of 1/Scale: the quotient of floats that all err
\* to one side of their decimals errs to that side (IEEE-754 double
\* arithmetic); the sentences of weight 0.0 add nothing
WeightedUlp(sentence_results) ==
    LET sides == {sentence_results[i].ulp : i \in
                     {j \in 1..Len(sentence_results) :
                         sentence_results[j].confidence # 0}}
    IN  IF sides = {1} THEN 1 ELSE IF sides = {-1} THEN -1 ELSE 0

\* a faulty variant of _calculate_overall_sentiment: the confidence is the
\* mean over the sentences of non-zero confidence only
CalculateOverallSentimentWeighed(sentence_results) ==
    LET total_weight == SumSeq(Confidences(sentence_results))
        weighted_score == SumSeq([i \in 1..Len(sentence_results) |->
                              sentence_results[i].polarity * sentence_results[i].confidence])
        n == Cardinality({i \in 1..Len(sentence_results) : sentence_results[i].confidence # 0})
    IN  IF sentence_results = <<>> \/ total_weight = 0
        THEN [overall |-> "Neutral", score |-> Zero, ulp |-> 0, confidence |-> Zero]
        ELSE [overall |-> SentimentLabel(weighted_score, total_weight,
                                         WeightedUlp(sentence_results)),
              score |-> Frac(weighted_score, total_weight),
              ulp |-> WeightedUlp(sentence_results),
              confidence |-> Frac(Min(total_weight, Scale * n), n)]

\* SentimentAnalyzer._calculate_overall_sentiment
CalculateOverallSentiment(sentence_results) ==
    LET total_weight == SumSeq(Confidences(sentence_results))
        \* polarity * weight is in units of 1/Scale^2, weight in units of
        \* 1/Scale: weighted_score / total_weight is in units of 1/Scale
        weighted_score == SumSeq([i \in 1..Len(sentence_results) |->
                              sentence_results[i].polarity * sentence_results[i].confidence])
        n == Len(sentence_results)
    IN  IF sentence_results = <<>> \/ total_weight = 0
        THEN [overall |-> "Neutral", score |-> Zero, ulp |-> 0, confidence |-> Zero]
        ELSE [overall |-> SentimentLabel(weighted_score, total_weight,
                                         WeightedUlp(sentence_results)),
              score |-> Frac(weighted_score, total_weight),
              ulp |-> WeightedUlp(sentence_results),
              confidence |-> Frac(Min(total_weight, Scale * n), n)]

CountLabel(sentence_results, label) ==
    Cardinality({i \in 1..Len(sentence_results) : sentence_results[i].sentiment = label})

RECURSIVE MaxPolarity(_)
MaxPolarity(rs) ==
    IF Len(rs) = 1 THEN rs[1].polarity ELSE Max(rs[1].polarity, MaxPolarity(Tail(rs)))

RECURSIVE MinPolarity(_)
MinPolarity(rs) ==
    IF Len(rs) = 1 THEN rs[1].polarity ELSE Min(rs[1].polarity, MinPolarity(Tail(rs)))

\* SentimentAnalyzer._create_summary: a dict, here the sequence of its items
CreateSummary(sentence_results) ==
    IF sentence_results = <<>> THEN <<>>
    ELSE LET n == Len(sentence_results)
         IN << [k |-> "total_sentences", v |-> n],
               [k |-> "sentiment_distribution",
                v |-> << [k |-> "Positive", v |-> CountLabel(sentence_results, "Positive")],
                         [k |-> "Negative", v |-> CountLabel(sentence_results, "Negative")],
                         [k |-> "Neutral", v |-> CountLabel(sentence_results, "Neutral")] >>],
               [k |-> "average_polarity",
                v |-> Frac(SumSeq(Polarities(sentence_results)), n)],
               [k |-> "average_confidence",
                v |-> Frac(SumSeq(Confidences(sentence_results)), n)],
               [k |-> "max_polarity", v |-> MaxPolarity(sentence_results)],
               [k |-> "min_polarity", v |-> MinPolarity(sentence_results)],
               [k |-> "important_sentences",
                v |-> Cardinality({i \in 1..n : sentence_results[i].is_important})] >>

\* a faulty variant of _create_empty_result: the summary is left empty
EmptySentimentResultNoSummary(error) ==
    [overall |-> "Neutral", score |-> Zero, ulp |-> 0, confidence |-> Zero,
     sentences |-> <<>>, summary |-> <<>>]

\* SentimentAnalyzer._create_empty_result
CreateEmptySentimentResult(error) ==
    [overall |-> "Neutral", score |-> Zero, ulp |-> 0, confidence |-> Zero,
     sentences |-> <<>>, summary |-> <<[k |-> "error", v |-> error]>>]

\* SentimentAnalyzer.analyze.  answers is what the libraries do on this text:
\* [tokenizer_raises, scores], scores[i] for the i-th sentence analysed
analyze(x, answers, uv, ut, lex) ==
    LET validation == validate_transcript(x)
    IN  IF validation.raised THEN Raised(validation.error.s)
        ELSE IF ~validation.is_valid
        THEN Returned(CreateEmptySentimentResult(validation.error.s))
        ELSE IF answers.tokenizer_raises
        THEN Returned(CreateEmptySentimentResult("Analysis error: tokenizer"))
        ELSE LET sentences == AnalyzerSentences(validation.transcript)
                 sentence_results ==
                     [i \in 1..Len(sentences) |->
                         AnalyzeSentence(sentences[i], answers.scores[i], uv, ut, lex)]
                 overall_sentiment == CalculateOverallSentiment(sentence_results)
             IN  Returned([overall |-> overall_sentiment.overall,
                           score |-> overall_sentiment.score,
                           ulp |-> overall_sentiment.ulp,
                           confidence |-> overall_sentiment.confidence,
                           sentences |-> sentence_results,
                           summary |-> CreateSummary(sentence_results)])

----------------------------------------------------------------------------
(* TranscriptProcessor                                                     *)

\* re.sub(pattern, repl, s).  A candidate is a match of the pattern tried at
\* one index: [a, b, r] for the indices a..b it covers and the text r that
\* replaces it.  re.sub scans from the left and takes the candidate at the
\* least index not before the end of the one taken last.
RECURSIVE Taken(_, _)
Taken(cands, i) ==
    LET live == {m \in cands : m.a >= i}
    IN  IF live = {} THEN {}
        ELSE LET first == CHOOSE m \in live : \A o \in live : m.a <= o.a
             IN  {first} \cup Taken(cands, first.b + 1)

Replaced(s, taken) ==
    Concat([k \in 1..Len(s) |->
               IF \E m \in taken : m.a = k THEN (CHOOSE m \in taken : m.a = k).r
               ELSE IF \E m \in taken : m.a < k /\ k <= m.b THEN ""
               ELSE At(s, k)])

Sub(s, cands) == IF cands = {} THEN s ELSE Replaced(s, Taken(cands, 1))

\* re.sub(r'\[.*?\]', '', s) and its two siblings: the shortest stretch from
\* open to close on one line ('.' matches no newline)
RemoveDelimited(s, open, close) ==
    Sub(s, {[a |-> i, b |-> SkipTo(s, i + 1, {close, "\n"}), r |-> ""] :
               i \in {j \in 1..Len(s) :
                         /\ At(s, j) = open
                         /\ SkipTo(s, j + 1, {close, "\n"}) <= Len(s)
                         /\ At(s, SkipTo(s, j + 1, {close, "\n"})) = close}})

\* re.sub(r'\.\.\.+', '', s), r'--+', r'__+': the runs of at least n of ch
RemoveRuns(s, ch, n) ==
    Sub(s, {[a |-> i, b |-> SkipIn(s, i, {ch}) - 1, r |-> ""] :
               i \in {j \in 1..Len(s) : At(s, j) = ch /\ SkipIn(s, j, {ch}) - j >= n}})

\* the least run lengths r'\.\.\.+', r'--+' and r'__+' remove
DotRun == 3
DashRun == 2
UnderscoreRun == 2

\* the loop over TranscriptProcessor.noise_patterns
RemoveNoise(text) ==
    LET a == RemoveDelimited(text, "[", "]")
        b == RemoveDelimited(a, "(", ")")
        c == RemoveDelimited(b, "<", ">")
        d == RemoveRuns(c, ".", DotRun)
        e == RemoveRuns(d, "-", DashRun)
    IN  RemoveRuns(e, "_", UnderscoreRun)

\* re.sub(r'([.!?])\s*([.!?])+', r'\1', s)
RemoveExtraPunctuation(s) ==
    Sub(s, {[a |-> i, b |-> SkipIn(s, SkipIn(s, i + 1, SpaceSet), TermSet) - 1,
             r |-> At(s, i)] :
               i \in {j \in 1..Len(s) :
                         /\ At(s, j) \in TermSet
                         /\ SkipIn(s, j + 1, SpaceSet) <= Len(s)
                         /\ At(s, SkipIn(s, j + 1, SpaceSet)) \in TermSet}})

\* [.!?,:;]
PunctSet == {".", "!", "?", ",", ":", ";"}

\* re.sub(r'\s+([.!?,:;])', r'\1', s)
RemoveSpaceBefore(s) ==
    Sub(s, {[a |-> i, b |-> SkipIn(s, i, SpaceSet), r |-> At(s, SkipIn(s, i, SpaceSet))] :
               i \in {j \in 1..Len(s) :
                         /\ At(s, j) \in SpaceSet
                         /\ SkipIn(s, j, SpaceSet) <= Len(s)
                         /\ At(s, SkipIn(s, j, SpaceSet)) \in PunctSet}})

\* re.sub(r'([.!?,:;])([A-Z])', r'\1 \2', s)
AddSpaceAfter(s) ==
    Sub(s, {[a |-> i, b |-> i + 1, r |-> At(s, i) \o " " \o At(s, i + 1)] :
               i \in {j \in 1..(Len(s) - 1) :
                         At(s, j) \in PunctSet /\ At(s, j + 1) \in UpperSet}})

\* \b at the gap before index i of s
Boundary(s, i) ==
    (i > 1 /\ i - 1 <= Len(s) /\ At(s, i - 1) \in WordSet)
        # (i <= Len(s) /\ At(s, i) \in WordSet)

\* the index after a match of \bw1\b or \bw1\s+w2\b (ws = <<w1>> or <<w1, w2>>),
\* ignoring case (sl is s lower-cased), at index i of s; 0 when there is none
WordMatchEnd(s, sl, i, ws) ==
    LET e1 == i + Len(ws[1])
        q == SkipIn(sl, e1, SpaceSet)
    IN  IF ~StartsAt(sl, i, ws[1]) \/ ~Boundary(s, i) THEN 0
        ELSE IF Len(ws) = 1
        THEN IF Boundary(s, e1) THEN e1 ELSE 0
        ELSE IF q > e1 /\ StartsAt(sl, q, ws[2]) /\ Boundary(s, q + Len(ws[2]))
        THEN q + Len(ws[2])
        ELSE 0

\* re.sub(pattern, replacement, s, flags=re.IGNORECASE) for such a pattern
SubWords(s, ws, replacement) ==
    LET sl == StrLower(s)
    IN  Sub(s, {[a |-> i, b |-> WordMatchEnd(s, sl, i, ws) - 1, r |-> replacement] :
                   i \in {j \in 1..Len(s) : WordMatchEnd(s, sl, j, ws) > 0}})

\* fixes of _fix_common_issues, in dict order
Fixes ==
    << [pattern |-> <<"uh">>, replacement |-> ""],
       [pattern |-> <<"um">>, replacement |-> ""],
       [pattern |-> <<"er">>, replacement |-> ""],
       [pattern |-> <<"well", "well">>, replacement |-> "well"],
       [pattern |-> <<"yeah", "yeah">>, replacement |-> "yeah"],
       [pattern |-> <<"okay", "okay">>, replacement |-> "okay"] >>

RECURSIVE ApplyFixes(_, _)
ApplyFixes(text, n) ==
    IF n > Len(Fixes) THEN text
    ELSE ApplyFixes(SubWords(text, Fixes[n].pattern, Fixes[n].replacement), n + 1)

\* TranscriptProcessor._fix_common_issues
FixCommonIssues(text) ==
    ApplyFixes(AddSpaceAfter(RemoveSpaceBefore(text)), 1)

\* TranscriptProcessor._clean_text
CleanText(text) ==
    StrStrip(FixCommonIssues(
        RemoveExtraPunctuation(CollapseSpaces(RemoveNoise(text)))))

\* len(sentence) > 10
MinSentenceLen == 10

\* TranscriptProcessor._extract_sentences
ExtractSentences(text) ==
    LET sentences == SplitSentences(text)
    IN  SelectSeq([i \in 1..Len(sentences) |-> StrStrip(sentences[i])],
                  LAMBDA sentence : Len(sentence) > MinSentenceLen)

\* text.split('\n')
SplitLines(s) == SplitOn(s, {"\n"}, FALSE)

\* TranscriptProcessor.speaker_patterns: ^([A-Z]first*rest+): as the class of
\* the characters after the first, and the least number of them
SpeakerPatterns ==
    << [rest |-> AlphaSet \cup SpaceSet, least |-> 1],
       [rest |-> UpperSet \cup SpaceSet, least |-> 1],
       [rest |-> LowerSet, least |-> 1],
       [rest |-> UpperSet, least |-> 0] >>

\* re.match(pattern, line).group(1), or "" when the pattern does not match
SpeakerMatch(line, pat) ==
    LET q == SkipIn(line, 2, pat.rest)
    IN  IF /\ Len(line) >= 1
           /\ At(line, 1) \in UpperSet
           /\ q - 2 >= pat.least
           /\ q <= Len(line)
           /\ At(line, q) = ":"
        THEN SubSeq(line, 1, q - 1)
        ELSE ""

\* the inner loop of _extract_speakers: the speaker the line adds, "" if none
RECURSIVE LineSpeaker(_, _)
LineSpeaker(line, n) ==
    IF n > Len(SpeakerPatterns) THEN ""
    ELSE LET g == SpeakerMatch(line, SpeakerPatterns[n])
         IN  IF g # ""
             THEN (IF Len(StrStrip(g)) > 1 THEN StrStrip(g) ELSE "")
             ELSE LineSpeaker(line, n + 1)

\* the code points of the characters a speaker name is made of, in order
CharOrder == <<"\t", "\n", "\r", " ">> \o UpperSeq \o LowerSeq
Rank(c) == CHOOSE i \in 1..Len(CharOrder) : CharOrder[i] = c

\* a < b for two str
RECURSIVE StrLess(_, _)
StrLess(a, b) ==
    IF b = "" THEN FALSE
    ELSE IF a = "" THEN TRUE
    ELSE IF Head(a) = Head(b) THEN StrLess(Tail(a), Tail(b))
    ELSE Rank(Head(a)) < Rank(Head(b))

\* sorted(list(speakers))
RECURSIVE SortedStrs(_)
SortedStrs(set) ==
    IF set = {} THEN <<>>
    ELSE LET least == CHOOSE a \in set : \A b \in set \ {a} : StrLess(a, b)
         IN  <<least>> \o SortedStrs(set \ {least})

\* TranscriptProcessor._extract_speakers
ExtractSpeakers(text) ==
    LET lines == SplitLines(text)
    IN  SortedStrs({LineSpeaker(lines[i], 1) : i \in 1..Len(lines)} \ {""})

\* TranscriptProcessor._create_metadata
CreateMetadata(original, cleaned, sentences, speakers) ==
    << [k |-> "original_length", v |-> Len(original)],
       [k |-> "cleaned_length", v |-> Len(cleaned)],
       [k |-> "sentence_count", v |-> Len(sentences)],
       [k |-> "speaker_count", v |-> Len(speakers)],
       [k |-> "average_sentence_length",
        v |-> IF sentences # <<>>
              THEN Frac(SumSeq([i \in 1..Len(sentences) |-> Len(StrSplit(sentences[i]))]),
                        Len(sentences))
              ELSE Zero],
       [k |-> "word_count", v |-> Len(StrSplit(cleaned))],
       [k |-> "speakers", v |-> speakers],
       [k |-> "processing_timestamp", v |-> "2024-01-01T00:00:00Z"] >>

\* a faulty variant of _create_empty_result: original_text is always the
\* empty str
EmptyTranscriptBlankOriginal(original_text, error) ==
    [original_text |-> PyStr(""), cleaned_text |-> "", sentences |-> <<>>,
     speakers |-> <<>>, metadata |-> <<[k |-> "error", v |-> error]>>]

\* TranscriptProcessor._create_empty_result
CreateEmptyTranscript(original_text, error) ==
    [original_text |-> original_text, cleaned_text |-> "", sentences |-> <<>>,
     speakers |-> <<>>, metadata |-> <<[k |-> "error", v |-> error]>>]

\* TranscriptProcessor.process
process(x) ==
    LET validation == validate_transcript(x)
    IN  IF validation.raised THEN Raised(validation.error.s)
        ELSE IF ~validation.is_valid
        THEN Returned(CreateEmptyTranscript(x, validation.error.s))
        ELSE LET original_text == validation.transcript
                 cleaned_text == CleanText(original_text)
                 sentences == ExtractSentences(cleaned_text)
                 speakers == ExtractSpeakers(cleaned_text)
             IN  Returned([original_text |-> PyStr(original_text),
                           cleaned_text |-> cleaned_text,
                           sentences |-> sentences,
                           speakers |-> speakers,
                           metadata |-> CreateMetadata(original_text, cleaned_text,
                                                       sentences, speakers)])

----------------------------------------------------------------------------
(* The inputs and the state machine.                                       *)

\* the most sentences of a generated transcript
MaxSent == 2

\* the sentences transcripts are generated from
Fragments ==
    << "We have a major problem with the system.",
       "we have a major PROBLEM with the system.",
       "So I think we should fix the urgent issue by the deadline?",
       "John: um, the budget [noise] is a  risk ..." >>

\* the transcripts of n fragments, joined by sep
RECURSIVE Joined(_, _)
Joined(n, sep) ==
    IF n = 1 THEN {Fragments[i] : i \in 1..Len(Fragments)}
    ELSE {t \o sep \o Fragments[i] : t \in Joined(n - 1, sep), i \in 1..Len(Fragments)}

Transcripts == UNION {Joined(n, " ") : n \in 1..MaxSent}

\* inputs analysed under every answer of the libraries and every configuration
ScoredInputs == {PyStr("We have a major problem with the good plan. It is not bad!")}

\* values that are no transcript, or wrap one, and transcripts of other shapes
OtherInputs ==
    {PyNone, PyInt, PyList, PyDict(<<>>), PyDict(<<PyInt>>), PyDict(<<PyNone>>),
     PyDict(<<PyStr("")>>), PyDict(<<PyStr("We agree, the plan is final.")>>),
     PyStr(""), PyStr("   "), PyStr(" \n\t"), PyStr("12345"), PyStr("?! 42 ..."),
     PyStr("  Hello there.\n"), PyStr("Mary: Hi.\nJohn: we can meet, okay okay!"),
     PyStr("The solution works. This is great, I am very happy"),
     PyStr("We decided to proceed, yes! Maybe we could expand the market."),
     PyStr("We are set. This one is longer."), PyStr("I um think it works."),
     PyStr("Hello [a\nb] there."),
     PyStr("The solution works. The issue is that this is in the way! We must fix the plan."),
     PyStr("The problem is a difficult issue, a challenge we must fix, we should and we will."),
     PyStr("We decided to proceed, yes! Maybe we could expand the market by the deadline. We must fix the difficult problem, a big issue."),
     PyStr("Yes I think we should go with the plan."),
     PyStr("Yes ok we can agree on that plan."),
     PyStr("Our issue is big today. The problem is a difficult issue. The trouble is so big now."),
     PyStr("The bad plan is Very GOOD now, we love it."),
     PyStr("The solution works, we must plan."),
     PyStr("We have a problem with the plan")}

Inputs == OtherInputs \cup ScoredInputs \cup {PyStr(t) : t \in Transcripts}

\* the sentences analyze hands to the libraries
SentencesOf(x) ==
    LET validation == validate_transcript(x)
    IN  IF validation.raised \/ ~validation.is_valid THEN <<>>
        ELSE AnalyzerSentences(validation.transcript)

\* what the libraries may do on one sentence: the one that raises ("" when
\* none does), VADER's compound score and TextBlob's polarity
Answer(r, v, b) == [raises |-> r, vader |-> v, textblob |-> b]
Quiet == Answer("", 0, 0)
Answers ==
    {Quiet, Answer("", 5, 5), Answer("", -5, -5), Answer("", 100, 100),
     Answer("", -100, -40), Answer("vader", 0, 0)}

\* what the libraries may do on the sentences of x
Libs(x) ==
    LET n == Len(SentencesOf(x))
    IN  IF x \in ScoredInputs
        THEN {[tokenizer_raises |-> TRUE, scores |-> [i \in 1..n |-> Quiet]]}
             \cup {[tokenizer_raises |-> FALSE, scores |-> scores] :
                       scores \in [1..n -> Answers]}
        ELSE {[tokenizer_raises |-> FALSE, scores |-> [i \in 1..n |-> Quiet]]}

Init ==
    /\ input \in Inputs
    /\ use_vader \in (IF input \in ScoredInputs THEN BOOLEAN ELSE {TRUE})
    /\ use_textblob \in (IF input \in ScoredInputs THEN BOOLEAN ELSE {TRUE})
    /\ lib \in Libs(input)
    /\ patterns = InitialPatterns
    /\ stop_words = InitialStopWords
    /\ lexicon = InitialLexicon
    /\ procRes = NotCalled
    /\ sentRes = NotCalled
    /\ insRes = NotCalled
    /\ insLocal = <<>>
    /\ insFound = <<>>

\* processor.process(input)
Process ==
    /\ procRes' = process(input)
    /\ UNCHANGED <<input, use_vader, use_textblob, lib, patterns, stop_words, lexicon,
                   sentRes, insRes, insLocal, insFound>>

\* analyzer.analyze(input)
Analyze ==
    /\ sentRes' = analyze(input, lib, use_vader, use_textblob, lexicon)
    /\ UNCHANGED <<input, use_vader, use_textblob, lib, patterns, stop_words, lexicon,
                   procRes, insRes, insLocal, insFound>>

\* a faulty variant of extract_insights: the texts found are remembered in
\* the stop-word set
ExtractInsightsLeaky ==
    \E r \in {extract_insights(input, patterns, stop_words)} :
        /\ insRes' = r.out
        /\ insLocal' = r.local
        /\ insFound' = r.found
        /\ stop_words' = stop_words \cup
               {StrLower(AllInsights(r.local)[j].text) :
                   j \in 1..Len(AllInsights(r.local))}
        /\ UNCHANGED <<input, use_vader, use_textblob, lib, patterns, lexicon,
                       procRes, sentRes>>

\* extractor.extract_insights(input)
ExtractInsights ==
    \E r \in {extract_insights(input, patterns, stop_words)} :
        /\ insRes' = r.out
        /\ insLocal' = r.local
        /\ insFound' = r.found
        /\ UNCHANGED <<input, use_vader, use_textblob, lib, patterns, stop_words, lexicon,
                       procRes, sentRes>>

Next == Process \/ Analyze \/ ExtractInsights

Spec == Init /\ [][Next]_vars

----------------------------------------------------------------------------
(* The properties.  What the documentation calls an input:                 *)

\* the value carries a str: it is one, or a mapping whose 'text' entry is one
CarriesText(x) == x.t = "str" \/ (x.t = "dict" /\ x.e # <<>> /\ x.e[1].t = "str")
TextOf(x) == IF x.t = "str" THEN x.s ELSE x.e[1].s

\* a valid transcript: non-empty after trimming, at least one letter
IsValidTranscript(x) == CarriesText(x) /\ HasAlpha(TextOf(x))

\* an invalid input: None, a non-string that hands over no 'text' entry, an
\* empty or whitespace-only text, a text without a letter
IsRejected(x) ==
    \/ x.t \notin {"str", "dict"}
    \/ (x.t = "dict" /\ x.e = <<>>)
    \/ (CarriesText(x) /\ ~HasAlpha(TextOf(x)))

\* the entry point has been called: its outcome is recorded
Called(outcome) == outcome.st # "none"

\* the keys of a dict, and the value under a key
Keys(dict) == {dict[i].k : i \in 1..Len(dict)}
Item(dict, key) == dict[CHOOSE i \in 1..Len(dict) : dict[i].k = key].v

\* the members of a list
Members(seq) == {seq[i] : i \in 1..Len(seq)}

\* no two texts of the list are equal when lower-cased
CaseDistinct(texts) ==
    \A i, j \in 1..Len(texts) : i # j => StrLower(texts[i]) # StrLower(texts[j])

\* a value in units of 1/unit with float error ulp lies in [0, 1]
InUnitInterval(value, ulp, unit) ==
    \/ (0 < value /\ value < unit)
    \/ (value = 0 /\ ulp >= 0)
    \/ (value = unit /\ ulp <= 0)

\* the float num/den +- ulp, in units of 1/Scale, is >= 0.05 / <= -0.05
AtLeastThreshold(num, den, ulp) ==
    num > LabelThreshold * den \/ (num = LabelThreshold * den /\ ulp >= 0)
AtMostMinusThreshold(num, den, ulp) ==
    num < -LabelThreshold * den \/ (num = -LabelThreshold * den /\ ulp <= 0)
LabelAgrees(label, num, den, ulp) ==
    /\ label = "Positive" <=> AtLeastThreshold(num, den, ulp)
    /\ label = "Negative" <=> AtMostMinusThreshold(num, den, ulp)
    /\ label = "Neutral" <=> (~AtLeastThreshold(num, den, ulp)
                                /\ ~AtMostMinusThreshold(num, den, ulp))

\* trigger phrases the documentation names, with the report key of their type
NamedTriggers ==
    << [key |-> "problems", words |-> {"problem", "issue"}],
       [key |-> "solutions", words |-> {"solution", "fix"}],
       [key |-> "decisions", words |-> {"decide", "decision"}] >>

\* the text holds the word in a sentence that ends with '.', '!' or '?'
MentionedInSentence(text, word) ==
    \E i \in Occurrences(StrLower(text), word) :
        \E j \in (i + Len(word))..Len(text) : At(text, j) \in TermSet

ReportLists == {"problems", "solutions", "action_items", "opportunities", "risks", "decisions"}
ReportKeys == ReportLists \cup {"metadata", "detailed_insights"}
SummaryKeys ==
    {"total_sentences", "sentiment_distribution", "average_polarity", "average_confidence",
     "max_polarity", "min_polarity", "important_sentences"}

\* C1: whenever a sentence of a valid transcript holds a trigger phrase of a
\* type and ends with a terminator, the report extract_insights returns has a
\* non-empty list under that type's key, with a text that holds the phrase.
C1_TriggerReported ==
    (Called(insRes) /\ IsValidTranscript(input)) =>
        \A n \in 1..Len(NamedTriggers) : \A word \in NamedTriggers[n].words :
            MentionedInSentence(TextOf(input), word) =>
                /\ insRes.st = "returned"
                /\ insRes.v[NamedTriggers[n].key] # <<>>
                /\ \E text \in Members(insRes.v[NamedTriggers[n].key]) :
                       StrContains(StrLower(text), word)

\* C2: no entry point ever raises, whatever value it is passed.
C2_NeverRaises ==
    /\ procRes.st # "raised"
    /\ sentRes.st # "raised"
    /\ insRes.st # "raised"

C4_ConfidenceInUnitInterval ==
    /\ \A insight \in Members(AllInsights(insLocal)) :
           InUnitInterval(insight.confidence, insight.ulp, ConfUnit)
    /\ insLocal # <<>> =>
           InUnitInterval(CalculateExtractionConfidence(AllInsights(insLocal)), 0, ConfUnit)
    /\ insRes.st = "returned" =>
           InUnitInterval(insRes.v.metadata.extraction_confidence, 0, ConfUnit)
    /\ sentRes.st = "returned" =>
           /\ \A r \in Members(sentRes.v.sentences) :
                  InUnitInterval(r.confidence, AbsUlp(r.polarity, r.ulp), Scale)
           /\ 0 <= sentRes.v.confidence.num
           /\ sentRes.v.confidence.num <= Scale * sentRes.v.confidence.den
           /\ "average_confidence" \in Keys(sentRes.v.summary) =>
                  LET mean == Item(sentRes.v.summary, "average_confidence")
                  IN  0 <= mean.num /\ mean.num <= Scale * mean.den

\* an insight was found, a sentence was analysed with confidence 1.0 and
\* another with a negative score
C4_Extremes ==
    /\ AllInsights(insLocal) # <<>>
    /\ sentRes.st = "returned"
    /\ \E r \in Members(sentRes.v.sentences) : r.confidence = Scale
    /\ \E r \in Members(sentRes.v.sentences) : r.polarity < 0
    /\ sentRes.v.confidence.num > 0

\* C5: no two insights of one type have texts that are equal when compared
\* case-insensitively, in the report and in the lists it is built from; of
\* the candidates with case-identical text the one found first is kept.
C5_CaseInsensitiveDedup ==
    /\ insRes.st = "returned" => \A key \in ReportLists : CaseDistinct(insRes.v[key])
    /\ \A n \in 1..Len(insLocal) :
           LET kept == insLocal[n].v
               found == insFound[n]
               First(text) == Least({c \in 1..Len(found) :
                                        StrLower(found[c].text) = StrLower(text)})
           IN  /\ CaseDistinct(Texts(kept))
               /\ \A c \in 1..Len(found) :
                      \E insight \in Members(kept) :
                          StrLower(insight.text) = StrLower(found[c].text)
               /\ \A insight \in Members(kept) :
                      /\ \E c \in 1..Len(found) : found[c].text = insight.text
                      /\ insight = found[First(insight.text)]

\* two candidates of one type differ only in case, and one of them is kept
C5_DuplicateDropped ==
    \E n \in 1..Len(insLocal) :
        /\ Len(insLocal[n].v) < Len(insFound[n])
        /\ \E c, d \in 1..Len(insFound[n]) :
               /\ c < d
               /\ insFound[n][c].text # insFound[n][d].text
               /\ StrLower(insFound[n][c].text) = StrLower(insFound[n][d].text)
               /\ insFound[n][c] \in Members(insLocal[n].v)

\* C6: the label is a function of the score with thresholds +0.05 and -0.05,
\* both inclusive: >= 0.05 is Positive, <= -0.05 is Negative, strictly between
\* is Neutral, for every sentence and for the overall label and score.
C6_LabelThresholds ==
    sentRes.st = "returned" =>
        /\ \A r \in Members(sentRes.v.sentences) :
               LabelAgrees(r.sentiment, r.polarity, 1, r.ulp)
        /\ LabelAgrees(sentRes.v.overall, sentRes.v.score.num, sentRes.v.score.den,
                       sentRes.v.ulp)

\* one sentence scores exactly 0.05 and is Positive, another exactly -0.05
\* and is Negative
C6_AtThresholds ==
    /\ sentRes.st = "returned"
    /\ \E r \in Members(sentRes.v.sentences) :
           r.polarity = LabelThreshold /\ r.ulp = 0 /\ r.sentiment = "Positive"
    /\ \E r \in Members(sentRes.v.sentences) :
           r.polarity = -LabelThreshold /\ r.ulp = 0 /\ r.sentiment = "Negative"

\* C7: on invalid input extract_insights returns a fully-populated report:
\* every top-level key present, the six lists empty, total_insights 0,
\* extraction_confidence 0, high_priority_items empty, a non-empty error.
C7_EmptyReport ==
    (IsRejected(input) /\ Called(insRes)) =>
        /\ insRes.st = "returned"
        /\ DOMAIN insRes.v = ReportKeys
        /\ \A key \in ReportLists : insRes.v[key] = <<>>
        /\ insRes.v.metadata.total_insights = 0
        /\ insRes.v.metadata.extraction_confidence = 0
        /\ insRes.v.metadata.high_priority_items = <<>>
        /\ insRes.v.metadata.error # ""

\* extract_insights has been called on a text without a letter
C7_RejectedExtraction ==
    /\ IsRejected(input) /\ CarriesText(input) /\ StrStrip(TextOf(input)) # ""
    /\ Called(insRes)

\* C8: on invalid input analyze returns overall Neutral, score 0.0,
\* confidence 0.0, no sentence and a summary that carries the error message.
C8_EmptySentiment ==
    (IsRejected(input) /\ Called(sentRes)) =>
        /\ sentRes.st = "returned"
        /\ sentRes.v.overall = "Neutral"
        /\ sentRes.v.score.num = 0 /\ sentRes.v.ulp = 0
        /\ sentRes.v.confidence.num = 0
        /\ sentRes.v.sentences = <<>>
        /\ Keys(sentRes.v.summary) = {"error"}
        /\ Item(sentRes.v.summary, "error") = validate_transcript(input).error.s
        /\ Item(sentRes.v.summary, "error") # ""

\* analyze has been called on a whitespace-only text
C8_RejectedAnalysis ==
    /\ IsRejected(input) /\ input.t = "str" /\ input.s # ""
    /\ StrStrip(input.s) = ""
    /\ Called(sentRes)

\* C9: on invalid input process returns an error-tagged empty result:
\* cleaned_text empty, no sentences, no speakers, an error in metadata and
\* original_text the value that was passed in.
C9_EmptyTranscript ==
    (IsRejected(input) /\ Called(procRes)) =>
        /\ procRes.st = "returned"
        /\ procRes.v.cleaned_text = ""
        /\ procRes.v.sentences = <<>>
        /\ procRes.v.speakers = <<>>
        /\ "error" \in Keys(procRes.v.metadata)
        /\ Item(procRes.v.metadata, "error") # ""
        /\ procRes.v.original_text = input

\* process has been called on None
C9_RejectedNone ==
    /\ input = PyNone
    /\ procRes.st = "returned"
    /\ procRes.v.original_text = PyNone

\* C10: for every valid transcript, whatever number of sentences it yields,
\* analyze (with libraries that answer) returns a result whose summary has
\* total_sentences, sentiment_distribution with the three counts, the mean,
\* min and max polarity, the mean confidence and the count of important
\* sentences.
C10_SummaryComplete ==
    (IsValidTranscript(input) /\ Called(sentRes) /\ ~lib.tokenizer_raises) =>
        /\ sentRes.st = "returned"
        /\ SummaryKeys \subseteq Keys(sentRes.v.summary)
        /\ Keys(Item(sentRes.v.summary, "sentiment_distribution"))
               = {"Positive", "Negative", "Neutral"}

\* C11: for every valid transcript the detailed_insights of the report has an
\* entry under each of the six pluralized keys of the plain-text lists, and
\* the entry under a key holds the records of exactly the texts listed under
\* that key, in their order.
C11_DetailedUnderListKeys ==
    (IsValidTranscript(input) /\ Called(insRes)) =>
        /\ insRes.st = "returned"
        /\ Keys(insRes.v.detailed_insights) = {PyStr(key) : key \in ReportLists}
        /\ \A key \in ReportLists :
               Texts(Item(insRes.v.detailed_insights, PyStr(key))) = insRes.v[key]

\* the lines of a text, and the label a line begins with ("" when it begins
\* with none of at least 2 characters)
LabelledLines(text) ==
    LET lines == SplitLines(text)
    IN  {LineSpeaker(lines[i], 1) : i \in 1..Len(lines)} \ {""}

\* C12: for a valid multi-line transcript the speakers process returns are
\* exactly the labels of at least 2 characters that a line of the transcript
\* begins with, deduplicated and sorted; two speakers labelled on different
\* lines are both returned.
C12_SpeakersOfLines ==
    (IsValidTranscript(input) /\ input.t = "str" /\ StrContains(StrStrip(input.s), "\n")
        /\ Called(procRes)) =>
        /\ procRes.st = "returned"
        /\ Members(procRes.v.speakers) = LabelledLines(StrStrip(input.s))
        /\ procRes.v.speakers = SortedStrs(LabelledLines(StrStrip(input.s)))

\* the trimmed fragments between the runs of '.', '!' and '?' of a text
TrimmedFragments(text) ==
    LET fragments == SplitSentences(text)
    IN  [i \in 1..Len(fragments) |-> StrStrip(fragments[i])]

\* C13: the sentences process returns are, in text order, exactly the trimmed
\* fragments of the cleaned text of at least 10 characters: a fragment is
\* discarded if and only if its trimmed length is below 10.
C13_SentencesOfTenOrMore ==
    (IsValidTranscript(input) /\ procRes.st = "returned") =>
        procRes.v.sentences =
            SelectSeq(TrimmedFragments(procRes.v.cleaned_text), LAMBDA f : Len(f) >= 10)

\* C14: for every valid transcript string the original_text process returns
\* is the string it was given, character for character.
C14_OriginalTextKept ==
    (IsValidTranscript(input) /\ input.t = "str" /\ Called(procRes)) =>
        /\ procRes.st = "returned"
        /\ procRes.v.original_text = input

Encloses(text, open, close) ==
    \E i \in 1..Len(text) : \E j \in (i + 1)..Len(text) :
        At(text, i) = open /\ At(text, j) = close
\* C15: for every valid transcript the cleaned_text process returns holds no
\* annotation enclosed in [ ], ( ) or < >, whether the annotation of the input
\* lies within one line or extends over a line break.
C15_NoAnnotationLeft ==
    (IsValidTranscript(input) /\ procRes.st = "returned") =>
        /\ ~Encloses(procRes.v.cleaned_text, "[", "]")
        /\ ~Encloses(procRes.v.cleaned_text, "(", ")")
        /\ ~Encloses(procRes.v.cleaned_text, "<", ">")

\* C16: for every valid transcript the cleaned_text process returns, after all
\* cleaning steps, holds no two consecutive whitespace characters and no newline.
C16_SingleSpaced ==
    (IsValidTranscript(input) /\ procRes.st = "returned") =>
        /\ ~StrContains(procRes.v.cleaned_text, "\n")
        /\ \A i \in 1..(Len(procRes.v.cleaned_text) - 1) :
               ~(At(procRes.v.cleaned_text, i) \in SpaceSet
                   /\ At(procRes.v.cleaned_text, i + 1) \in SpaceSet)

SpacedMarks == {".", "!", "?", ",", ":", ";"}
\* C17: filler tokens are removed before the spacing around punctuation is
\* fixed, so in the cleaned_text process returns no whitespace character
\* stands immediately before any of the marks . ! ? , : ;
C17_NoSpaceBeforeMark ==
    (IsValidTranscript(input) /\ procRes.st = "returned") =>
        \A i \in 1..(Len(procRes.v.cleaned_text) - 1) :
            ~(At(procRes.v.cleaned_text, i) \in SpaceSet
                /\ At(procRes.v.cleaned_text, i + 1) \in SpacedMarks)

\* the three conditions of a meaningful insight text: at least 10 characters,
\* at least 3 words, at most 70% of the words stop-words
Meaningful(text, stops) ==
    LET words == StrSplit(text)
        stop_count == Cardinality({i \in 1..Len(words) : StrLower(words[i]) \in stops})
    IN  /\ Len(text) >= 10
        /\ Len(words) >= 3
        /\ stop_count * 100 <= 70 * Len(words)

\* the candidates of a transcript: every match of a pattern of any type, with
\* its prefix removed
CandidatesOf(text, pats) ==
    UNION {UNION {{CleanInsightText(m) : m \in Members(FindAll(pats[t].patterns[p], text))} :
                      p \in 1..Len(pats[t].patterns)} : t \in Members(InsightType)}

\* C18: every insight, of any type, in the lists the extraction builds and in
\* the report has a text of at least 10 characters and at least 3 words of
\* which at most 70% are stop-words; a candidate that fails one of the three
\* is not among the insights.
C18_OnlyMeaningfulInsights ==
    /\ \A n \in 1..Len(insFound) : \A insight \in Members(insFound[n]) :
           Meaningful(insight.text, stop_words)
    /\ \A insight \in Members(AllInsights(insLocal)) : Meaningful(insight.text, stop_words)
    /\ insRes.st = "returned" =>
           \A key \in ReportLists : \A text \in Members(insRes.v[key]) :
               Meaningful(text, stop_words)
    /\ (IsValidTranscript(input) /\ Called(insRes)) =>
           \A c \in CandidatesOf(StrStrip(TextOf(input)), patterns) :
               ~Meaningful(c, stop_words) =>
                   \A insight \in Members(AllInsights(insLocal)) : insight.text # c

\* an extraction that made an insight of one candidate and turned down three:
\* one too short, one of two words, one with too many stop-words
C18_CandidatesRejected ==
    /\ IsValidTranscript(input) /\ Called(insRes)
    /\ AllInsights(insLocal) # <<>>
    /\ \E c \in CandidatesOf(StrStrip(TextOf(input)), patterns) : Len(c) < 10
    /\ \E c \in CandidatesOf(StrStrip(TextOf(input)), patterns) :
           Len(c) >= 10 /\ Len(StrSplit(c)) < 3
    /\ \E c \in CandidatesOf(StrStrip(TextOf(input)), patterns) :
           Len(c) >= 10 /\ Len(StrSplit(c)) >= 3 /\ ~Meaningful(c, stop_words)

\* C19: the category of every insight, in the lists the extraction builds and
\* among the detailed insights of the report, is a member of the category
\* vocabulary declared for the type of the insight.
C19_CategoryOfOwnType ==
    /\ \A insight \in Members(AllInsights(insLocal)) :
           insight.category \in Members(patterns[insight.type].categories)
    /\ insRes.st = "returned" =>
           \A n \in 1..Len(insRes.v.detailed_insights) :
               \A insight \in Members(insRes.v.detailed_insights[n].v) :
                   insight.category \in Members(patterns[insight.type].categories)

ActionCues == {"will", "should", "need", "must", "can", "could"}

\* the keywords of a type, and the action cues, found in a lower-cased text
KeywordsFound(text, type) ==
    {kw \in Members(patterns[type].keywords) : StrContains(StrLower(text), kw)}
CuesFound(text) == {cue \in ActionCues : StrContains(StrLower(text), cue)}

\* min(0.2*k, 0.6) + b + min(0.1*a, 0.2), capped at 1.0, in thousandths
StatedConfidence(text, type) ==
    LET k == Cardinality(KeywordsFound(text, type))
        a == Cardinality(CuesFound(text))
        words == Len(StrSplit(text))
        b == IF words > 10 THEN 200 ELSE IF words >= 6 THEN 100 ELSE 0
    IN  Min(Min(200 * k, 600) + b + Min(100 * a, 200), 1000)

\* C20: the confidence of an insight is min(0.2*k, 0.6) + b + min(0.1*a, 0.2),
\* capped at 1.0, with k the distinct keywords of its type and a the distinct
\* action cues found in the lower-cased text, and b 0.2 above 10 words, 0.1
\* for 6 to 10 words, 0 for 5 or fewer.
C20_ConfidenceFormula ==
    /\ \A n \in 1..Len(insFound) : \A insight \in Members(insFound[n]) :
           insight.confidence = StatedConfidence(insight.text, insight.type)
    /\ \A insight \in Members(AllInsights(insLocal)) :
           insight.confidence = StatedConfidence(insight.text, insight.type)

\* an insight with more keywords and more cues than the caps count, of more
\* than 10 words, and another of 6 words with one keyword
C20_CapsAndBoosts ==
    /\ \E insight \in Members(AllInsights(insLocal)) :
           /\ Cardinality(KeywordsFound(insight.text, insight.type)) > 3
           /\ Cardinality(CuesFound(insight.text)) > 2
           /\ Len(StrSplit(insight.text)) > 10
           /\ insight.confidence = 1000
    /\ \E insight \in Members(AllInsights(insLocal)) :
           /\ Cardinality(KeywordsFound(insight.text, insight.type)) = 1
           /\ Len(StrSplit(insight.text)) = 6
           /\ insight.confidence = 500

UrgentCues == {"urgent", "critical", "important", "asap", "immediately", "deadline"}

\* the priority by the first applicable of the four rules; confidence in
\* thousandths
StatedPriority(text, type, confidence) ==
    CASE \E cue \in UrgentCues : StrContains(StrLower(text), cue) -> "high"
      [] OTHER ->
         CASE type \in {"action_item", "problem"} /\ confidence > 500 -> "medium"
           [] OTHER ->
              CASE type \in {"opportunity", "decision"} -> "low"
                [] OTHER -> "medium"

\* C21: the priority of every insight is that of the first applicable rule:
\* high if the text holds an urgent cue, else medium for an action item or a
\* problem of confidence above 0.5, else low for an opportunity or a decision,
\* else medium; it is one of high, medium, low.
C21_PriorityByFirstRule ==
    \A insight \in Members(AllInsights(insLocal)) :
        /\ insight.priority = StatedPriority(insight.text, insight.type, insight.confidence)
        /\ insight.priority \in {"high", "medium", "low"}

\* one extraction with an opportunity made high by an urgent cue, a decision
\* that is low, a problem of confidence above 0.5 and a solution that is medium
\* by the last rule
C21_EveryRuleApplied ==
    /\ \E insight \in Members(AllInsights(insLocal)) :
           insight.type = "opportunity" /\ insight.priority = "high"
    /\ \E insight \in Members(AllInsights(insLocal)) :
           insight.type = "decision" /\ insight.priority = "low"
    /\ \E insight \in Members(AllInsights(insLocal)) :
           insight.type = "problem" /\ insight.confidence > 500 /\ insight.priority = "medium"
    /\ \E insight \in Members(AllInsights(insLocal)) :
           insight.type = "solution" /\ insight.priority = "medium"

\* the matches of the patterns of a type in a text, before they are cleaned
RawMatches(text, pats, type) ==
    UNION {Members(FindAll(pats[type].patterns[p], text)) : p \in 1..Len(pats[type].patterns)}

AllTypes == Members(InsightType)

\* what may be left of s when one phrase of a list that s begins with,
\* whatever the case, goes with the whitespace after it; s when it begins
\* with none
AfterPhrase(s, phrases) ==
    LET leading == {ph \in phrases : StartsAt(StrLower(s), 1, ph)}
    IN  IF leading = {} THEN {s}
        ELSE {SubSeq(s, SkipIn(s, Len(ph) + 1, SpaceSet), Len(s)) : ph \in leading}

Acknowledgements == Members(PrefixesToRemove[1])
Hedges == Members(PrefixesToRemove[2])
WePhrases == Members(PrefixesToRemove[3])

\* the match with its whitespace collapsed
Collapsed(match) == CollapseSpaces(StrStrip(match))

\* at most one phrase, of whatever list, removed
OnePhraseRemoved(match) ==
    {StrStrip(Collapsed(match))}
        \cup {StrStrip(z) : z \in AfterPhrase(Collapsed(match),
                                              Acknowledgements \cup Hedges \cup WePhrases)}

\* one phrase of each list removed in turn, where the text begins with one
EachListOnce(match) ==
    {StrStrip(z) : z \in UNION {UNION {AfterPhrase(y, WePhrases) : y \in AfterPhrase(x, Hedges)} :
                                    x \in AfterPhrase(Collapsed(match), Acknowledgements)}}

\* C22 as stated: candidate cleaning collapses whitespace and strips at most
\* one leading filler or hedge phrase; a candidate that begins with several in
\* a row loses only the first.
C22_OnePhraseOnly ==
    (IsValidTranscript(input) /\ Called(insRes)) =>
        \A type \in AllTypes : \A match \in RawMatches(StrStrip(TextOf(input)), patterns, type) :
            /\ CleanInsightText(match) \in OnePhraseRemoved(match)
            /\ IsValidInsight(CleanInsightText(match), stop_words) =>
                   \E insight \in Members(AllInsights(insLocal)) :
                       insight.type = type /\ insight.text \in OnePhraseRemoved(match)

\* C22 amended: candidate cleaning collapses whitespace and then strips, in this
\* order, at most one leading acknowledgement, at most one leading hedge and at
\* most one leading we-phrase, so a candidate that begins with one of each in
\* that order loses all three; a second phrase of a list, or a phrase of an
\* earlier list behind one that stays, is kept.
C22_OnePhraseOfEachList ==
    (IsValidTranscript(input) /\ Called(insRes)) =>
        /\ \A type \in AllTypes : \A match \in RawMatches(StrStrip(TextOf(input)), patterns, type) :
               CleanInsightText(match) \in EachListOnce(match)
        /\ \A n \in 1..Len(insFound) : \A insight \in Members(insFound[n]) :
               \E match \in RawMatches(StrStrip(TextOf(input)), patterns, insight.type) :
                   insight.text \in EachListOnce(match)

\* an insight made of a match that began with an acknowledgement, a hedge and
\* a we-phrase and lost the three
C22_ThreePhrasesStripped ==
    /\ IsValidTranscript(input) /\ Called(insRes)
    /\ \E match \in RawMatches(StrStrip(TextOf(input)), patterns, "decision") :
           /\ StartsAt(StrLower(match), 1, "yes i think we should ")
           /\ \E insight \in Members(AllInsights(insLocal)) :
                  /\ insight.type = "decision"
                  /\ insight.text = SubSeq(match, Len("yes i think we should ") + 1, Len(match))

\* the number of the sentence of a transcript in which position pos lies:
\* one more than the runs of terminators that end before pos
SentenceAt(transcript, pos) ==
    1 + Cardinality({j \in 1..(pos - 1) :
                        /\ At(transcript, j) \in TermSet
                        /\ At(transcript, j + 1) \notin TermSet})

\* the sentence in which the text is found, with the one before and the one
\* after it where there is one
SentencesAround(transcript, text) ==
    LET sentences == SplitSentences(transcript)
        k == SentenceAt(transcript, StrFind(StrLower(transcript), StrLower(text)))
    IN  StrStrip(StrJoin(SubSeq(sentences, Max(1, k - 1), Min(Len(sentences), k + 1))))

\* C23: the context of an insight whose text is found in the transcript,
\* whatever the case, is the sentence that holds it with the sentence before
\* and the sentence after, clipped at the ends of the transcript; the context
\* of one that is not found is its own text.
C23_ContextAroundInsight ==
    (IsValidTranscript(input) /\ Called(insRes)) =>
        \A insight \in Members(AllInsights(insLocal)) :
            IF StrContains(StrLower(StrStrip(TextOf(input))), StrLower(insight.text))
            THEN /\ insight.context = SentencesAround(StrStrip(TextOf(input)), insight.text)
                 /\ insight.context # ""
            ELSE insight.context = insight.text

\* the place of an insight among the candidates found for its type: that of
\* the first candidate with its text, whatever the case
FoundAt(found, insight) ==
    Least({k \in 1..Len(found) : StrLower(found[k].text) = StrLower(insight.text)})

\* confidence a is the smaller float
SmallerConfidence(a, b) ==
    a.confidence < b.confidence \/ (a.confidence = b.confidence /\ a.ulp < b.ulp)

IsQuotient(fraction, a, b) ==
    /\ fraction.den > 0
    /\ (fraction.num \div fraction.den) = (a \div b)
    /\ (fraction.num % fraction.den) * b = (a % b) * fraction.den

\* the sums over the analysed sentences: of the confidences, in 1/Scale, and
\* of polarity * confidence, in 1/Scale^2
TotalWeight(sentences) == SumSeq([i \in 1..Len(sentences) |-> sentences[i].confidence])
WeightedScore(sentences) ==
    SumSeq([i \in 1..Len(sentences) |-> sentences[i].polarity * sentences[i].confidence])

\* C25: the overall score is the sum of polarity * confidence over the analysed
\* sentences divided by the sum of their confidences; with no sentence or a
\* total weight of zero the result is Neutral with score 0 and confidence 0;
\* otherwise the overall confidence is the sum of the confidences divided by
\* the number of analysed sentences, those of confidence zero included, capped
\* at 1.0.
C25_WeightedMean ==
    (IsValidTranscript(input) /\ sentRes.st = "returned") =>
        IF sentRes.v.sentences = <<>> \/ TotalWeight(sentRes.v.sentences) = 0
        THEN /\ sentRes.v.overall = "Neutral"
             /\ sentRes.v.score.num = 0
             /\ sentRes.v.confidence.num = 0
        ELSE /\ IsQuotient(sentRes.v.score, WeightedScore(sentRes.v.sentences),
                           TotalWeight(sentRes.v.sentences))
             /\ IsQuotient(sentRes.v.confidence,
                           Min(TotalWeight(sentRes.v.sentences),
                               1000 * Len(sentRes.v.sentences)),
                           Len(sentRes.v.sentences))

\* an analysis of two sentences of different scores, one of confidence zero
\* and one that carries all the weight
C25_ZeroWeightSentence ==
    /\ IsValidTranscript(input) /\ sentRes.st = "returned"
    /\ Len(sentRes.v.sentences) = 2
    /\ \E i, j \in 1..2 :
           /\ sentRes.v.sentences[i].confidence = 0
           /\ sentRes.v.sentences[j].confidence > 0
           /\ sentRes.v.score.num = sentRes.v.sentences[j].polarity * sentRes.v.score.den
           /\ 2 * sentRes.v.confidence.num =
                  sentRes.v.sentences[j].confidence * sentRes.v.confidence.den

\* value, in thousandths, is the mean of the confidences of the insights
\* rounded to 3 decimals: no more than half a thousandth from it; 0 for none
IsRoundedMean(value, insights) ==
    LET total == SumSeq([i \in 1..Len(insights) |-> insights[i].confidence])
        n == Len(insights)
        away == IF n * value >= total THEN n * value - total ELSE total - n * value
    IN  IF n = 0 THEN value = 0 ELSE 2 * away <= n

\* the sum of the lengths of the lists of a dict
RECURSIVE ListLengths(_)
ListLengths(dict) ==
    IF dict = <<>> THEN 0 ELSE Len(Head(dict).v) + ListLengths(Tail(dict))

\* the insights of the detailed lists of a report, one list after the other
ReportedInsights(report) == AllInsights(report.detailed_insights)

\* C26: total_insights is the sum of the lengths of the six type lists, and
\* extraction_confidence is the mean confidence over exactly those insights,
\* rounded to 3 decimals, 0 when there are none; in the report, and as the call
\* computes them from the lists it built.
C26_TotalsOfTheLists ==
    /\ insRes.st = "returned" =>
           /\ insRes.v.metadata.total_insights =
                  Len(insRes.v.problems) + Len(insRes.v.solutions)
                      + Len(insRes.v.action_items) + Len(insRes.v.opportunities)
                      + Len(insRes.v.risks) + Len(insRes.v.decisions)
           /\ Len(ReportedInsights(insRes.v)) = insRes.v.metadata.total_insights
           /\ IsRoundedMean(insRes.v.metadata.extraction_confidence, ReportedInsights(insRes.v))
    /\ insLocal # <<>> =>
           /\ Len(AllInsights(insLocal)) = ListLengths(insLocal)
           /\ IsRoundedMean(CalculateExtractionConfidence(AllInsights(insLocal)),
                            AllInsights(insLocal))

\* an extraction with insights of two types whose mean confidence is rounded
\* up to the third decimal
C26_MeanRoundedUp ==
    /\ Called(insRes)
    /\ Cardinality({n \in 1..Len(insLocal) : insLocal[n].v # <<>>}) >= 2
    /\ LET n == Len(AllInsights(insLocal))
           total == SumConfidence(AllInsights(insLocal))
       IN  2 * (total % n) > n

\* the texts of the high-priority insights of one type, in its ranked order
HighOf(dict, type) ==
    LET ranked == Item(dict, PyStr(type))
    IN  [i \in 1..Len(SelectSeq(ranked, LAMBDA x : x.priority = "high")) |->
            SelectSeq(ranked, LAMBDA x : x.priority = "high")[i].text]

\* type by type in the fixed order
HighByType(dict) ==
    HighOf(dict, "problem") \o HighOf(dict, "solution") \o HighOf(dict, "action_item")
        \o HighOf(dict, "opportunity") \o HighOf(dict, "risk") \o HighOf(dict, "decision")

\* C27: high_priority_items is the sequence of the texts of the insights of
\* priority high, type by type in the order problem, solution, action item,
\* opportunity, risk, decision and within a type in its ranked order; a text
\* that is a high-priority insight under two types is listed once per type.
C27_HighPriorityInOrder ==
    /\ insRes.st = "returned" =>
           insRes.v.metadata.high_priority_items =
               Texts(SelectSeq(ReportedInsights(insRes.v), LAMBDA x : x.priority = "high"))
    /\ insLocal # <<>> =>
           HighPriorityItems(AllInsights(insLocal)) = HighByType(insLocal)

\* an extraction in which one text is a high-priority insight under two types
\* and another type has a high-priority insight too
C27_HighUnderTwoTypes ==
    /\ insLocal # <<>>
    /\ \E text \in Members(HighOf(insLocal, "solution")) :
           text \in Members(HighOf(insLocal, "action_item"))
    /\ HighOf(insLocal, "problem") # <<>>
    /\ \E x \in Members(AllInsights(insLocal)) : x.priority # "high"

\* the highlights that are emitted, from the k-th on: those that do not start
\* before the end of the one emitted last
RECURSIVE EmittedFrom(_, _, _)
EmittedFrom(highlights, k, last_end) ==
    IF k > Len(highlights) THEN {}
    ELSE IF highlights[k].start < last_end THEN EmittedFrom(highlights, k + 1, last_end)
    ELSE {k} \cup EmittedFrom(highlights, k + 1, highlights[k].end)

\* the text with '**' put where an emitted highlight starts and where it ends
Wrapped(text, highlights) ==
    LET emitted == EmittedFrom(highlights, 1, 0)
        marks(offset) ==
            (IF \E k \in emitted : highlights[k].end = offset THEN "**" ELSE "")
                \o (IF \E k \in emitted : highlights[k].start = offset THEN "**" ELSE "")
    IN  Concat([p \in 1..(Len(text) + 1) |->
                   marks(p - 1) \o (IF p <= Len(text) THEN At(text, p) ELSE "")])

\* C28: of every analysed sentence the highlights are in the order of their
\* start offsets, each with 0 <= start < end <= the length of the text and
\* text[start:end] its word, a lexicon word whatever the case; highlighted_text
\* is the text with every highlight that does not start before the end of the
\* one emitted before it wrapped in '**', so without the markers put in it is
\* the text.
C28_HighlightsWrapped ==
    (IsValidTranscript(input) /\ sentRes.st = "returned") =>
        \A r \in Members(sentRes.v.sentences) :
            /\ \A i, j \in 1..Len(r.highlights) :
                   i < j => r.highlights[i].start <= r.highlights[j].start
            /\ \A h \in Members(r.highlights) :
                   /\ 0 <= h.start /\ h.start < h.end /\ h.end <= Len(r.text)
                   /\ SubSeq(r.text, h.start + 1, h.end) = h.word
                   /\ StrLower(h.word) \in lexicon.positive_words \cup lexicon.negative_words
            /\ r.highlighted_text = Wrapped(r.text, r.highlights)
            /\ Len(r.highlighted_text) =
                   Len(r.text) + 4 * Cardinality(EmittedFrom(r.highlights, 1, 0))

\* a sentence with a negative word before two positive words, one of them in
\* capitals, all three wrapped
C28_ThreeWordsWrapped ==
    /\ sentRes.st = "returned"
    /\ \E r \in Members(sentRes.v.sentences) :
           /\ Len(r.highlights) = 3
           /\ r.highlights[1].polarity = "Negative"
           /\ r.highlights[2].polarity = "Positive"
           /\ r.highlights[2].word # StrLower(r.highlights[2].word)
           /\ Len(r.highlighted_text) = Len(r.text) + 12

\* text is what is left of whole when zero or more complete leading words go:
\* whole itself, or an end of whole that starts a word, after whitespace
LeadingWordsRemoved(text, whole) ==
    \/ text = whole
    \/ /\ Len(text) < Len(whole)
       /\ SubSeq(whole, Len(whole) - Len(text) + 1, Len(whole)) = text
       /\ (text = "" \/ /\ At(whole, Len(whole) - Len(text)) \in SpaceSet
                        /\ At(text, 1) \notin SpaceSet)

\* C29: candidate cleaning removes only whole leading words: what
\* _clean_insight_text returns is the whitespace-collapsed match with zero or
\* more complete leading words removed, so every insight text starts at the
\* beginning of a word of the match and no word of it is left truncated.
C29_WholeWordsOnly ==
    (IsValidTranscript(input) /\ Called(insRes)) =>
        /\ \A type \in AllTypes : \A match \in RawMatches(StrStrip(TextOf(input)), patterns, type) :
               LeadingWordsRemoved(CleanInsightText(match), Collapsed(match))
        /\ \A insight \in Members(AllInsights(insLocal)) :
               \E match \in RawMatches(StrStrip(TextOf(input)), patterns, insight.type) :
                   LeadingWordsRemoved(insight.text, Collapsed(match))

\* the text ends with a terminator and holds no other
EndsWithItsOnlyTerminator(text) ==
    /\ text # ""
    /\ At(text, Len(text)) \in TermSet
    /\ \A i \in 1..(Len(text) - 1) : At(text, i) \notin TermSet

HasTerminator(text) == \E i \in 1..Len(text) : At(text, i) \in TermSet

\* C30: every insight text ends with exactly one of '.', '!' and '?' and holds
\* no other terminator; so a valid transcript without any of the three yields
\* no insight of any type, whatever triggers it holds, and its report carries no
\* error.
C30_TerminatedInsights ==
    /\ \A insight \in Members(AllInsights(insLocal)) : EndsWithItsOnlyTerminator(insight.text)
    /\ insRes.st = "returned" =>
           \A key \in ReportLists : \A text \in Members(insRes.v[key]) :
               EndsWithItsOnlyTerminator(text)
    /\ (IsValidTranscript(input) /\ ~HasTerminator(TextOf(input)) /\ Called(insRes)) =>
           /\ insRes.st = "returned"
           /\ AllInsights(insLocal) = <<>>
           /\ \A key \in ReportLists : insRes.v[key] = <<>>
           /\ "error" \notin DOMAIN insRes.v.metadata

====
